---- MODULE Spec2Model ----
(***************************************************************************)
(* Model of the FerresDB TypeScript SDK request reliability layer:         *)
(* the retrying HTTP transport (VectorDBClient.request), the error         *)
(* taxonomy (createErrorFromResponse), the batching upsert orchestrator    *)
(* (upsertPoints / upsertBatch / deletePoints) and the streaming session   *)
(* (RealtimeClient).                                                       *)
(***************************************************************************)
EXTENDS Integers, Sequences, FiniteSets, TLC

VARIABLES
  cfg,      \* the client after construction: maxRetries, retryDelay, apiKey and
            \* the default headers of its axios instance
  call,     \* the operation the caller invoked and its arguments
  up,       \* the operation's position and the locals of upsertPoints
  req,      \* the running call of request(): position, attempt, last caught error
  hist,     \* outcome of every attempt of the running request() call
  sleeps,   \* backoff delays the running request() call has slept, in order
  net,      \* every HTTP attempt put on the network, in order
  batches,  \* the point list of every upsertBatch call, in order
  results,  \* the result of every upsertBatch call that returned, in order
  ret,      \* what the operation handed to its caller
  ws,          \* RealtimeClient.ws: the socket the client holds (0 is null)
  connected,   \* RealtimeClient.connected
  pendingAck,  \* RealtimeClient.pendingAck: the call whose resolver it holds (0 is null)
  pendingPong, \* RealtimeClient.pendingPong: the call whose resolver it holds (0 is null)
  socks,       \* every WebSocket connect() created: its state and the connect() promise
  calls,       \* every upsert / subscribe / ping call made, in order
  timers,      \* the timeouts armed by setTimeout that have not fired yet, each
               \* with the milliseconds left until it fires
  wsSent,      \* the frames the last step handed to a socket
  heard,       \* the deliveries the last step made to listeners, in order
  unhandled,   \* the last step threw out of its handler
  listeners,   \* how many listeners the caller registered per event name
  rtLast,      \* the last step of the streaming session
  fn,          \* a direct call of createErrorFromResponse: its arguments and result
  par          \* request() calls running side by side on one client, each with
               \* its own locals, attempt outcomes and backoff sleeps

httpVars == <<cfg, call, up, req, hist, sleeps, net, batches, results, ret>>
rtVars == <<ws, connected, pendingAck, pendingPong, socks, calls, timers, wsSent,
            heard, unhandled, listeners, rtLast>>
vars == <<httpVars, rtVars, fn, par>>

(***************************************************************************)
(* Bounds of the model.                                                    *)
(***************************************************************************)
\* largest configured maxRetries explored for a direct request() call
MaxRetries == 3
\* largest configured maxRetries explored under upsertPoints / deletePoints
MaxBatchRetries == 1
\* largest number of chunks an upsertPoints input splits into
MaxChunks == 3
\* data operations (upsert, subscribe, ping) called on one streaming session
MaxCalls == 2
\* connect() calls on one streaming session that makes data calls
MaxSockets == 1
\* connect() calls on one streaming session that connects and closes repeatedly
MaxConnects == 2
\* data operations called on such a session
MaxConnCalls == 1
\* longest key name given to createKey, in characters
MaxNameLen == 3
\* request() calls running side by side on one client
MaxPar == 2
\* largest configured maxRetries explored for them
MaxParRetries == 2

\* configured initial backoff delays explored (retryDelay, positive integers)
RetryDelays == {1, 1000}

\* configured credentials explored: "" is an omitted apiKey (the options
\* schema rejects an empty one)
ApiKeys == {"", "ferres_sk_abc123"}

(***************************************************************************)
(* Program constants.                                                      *)
(***************************************************************************)
MAX_BATCH_SIZE == 1000

\* JS `undefined` for the optional numeric field VectorDBError.code
Undefined == -1

\* setTimeout delay of sendAndWaitAck, in milliseconds
ACK_TIMEOUT == 30000
\* setTimeout delay of ping, in milliseconds
PONG_TIMEOUT == 10000

(***************************************************************************)
(* Error taxonomy (errors.ts).  An error value is a record; `typed` is     *)
(* `instanceof VectorDBError`.  A string built from a template is          *)
(* <<template, text, number>>; the text put in a collection template is    *)
(* itself such a string.                                                   *)
(***************************************************************************)
\* a message that is a plain string
Text(s) == <<"%s", s, 0>>

\* new VectorDBError(message, code?)
VectorDBError(message, code) ==
  [typed |-> TRUE, name |-> "VectorDBError", code |-> code, message |-> message,
   estimate |-> "none"]

\* new CollectionNotFoundError(collectionName): fixed code 404
CollectionNotFoundError(collectionName) ==
  [typed |-> TRUE, name |-> "CollectionNotFoundError", code |-> 404,
   message |-> <<"collection '%s' not found", collectionName, 0>>, estimate |-> "none"]

\* new CollectionAlreadyExistsError(collectionName): fixed code 409
CollectionAlreadyExistsError(collectionName) ==
  [typed |-> TRUE, name |-> "CollectionAlreadyExistsError", code |-> 409,
   message |-> <<"collection '%s' already exists", collectionName, 0>>,
   estimate |-> "none"]

\* new InvalidDimensionError(message): fixed code 400
InvalidDimensionError(message) ==
  [typed |-> TRUE, name |-> "InvalidDimensionError", code |-> 400,
   message |-> message, estimate |-> "none"]

\* new InvalidPayloadError(message): fixed code 400
InvalidPayloadError(message) ==
  [typed |-> TRUE, name |-> "InvalidPayloadError", code |-> 400,
   message |-> message, estimate |-> "none"]

\* new InternalError(message): fixed code 500
InternalError(message) ==
  [typed |-> TRUE, name |-> "InternalError", code |-> 500,
   message |-> message, estimate |-> "none"]

\* new BudgetExceededError(message, estimate): fixed code 422
BudgetExceededError(message, estimate) ==
  [typed |-> TRUE, name |-> "BudgetExceededError", code |-> 422,
   message |-> message, estimate |-> estimate]

\* new ConnectionError(message): no code
ConnectionError(message) ==
  [typed |-> TRUE, name |-> "ConnectionError", code |-> Undefined,
   message |-> message, estimate |-> "none"]

\* an exception that is not a VectorDBError (TypeError, ZodError, AxiosError)
RawError(name, message) ==
  [typed |-> FALSE, name |-> name, code |-> Undefined, message |-> message,
   estimate |-> "none"]

\* placeholder of an error slot that holds no error
NoError == RawError("none", Text(""))

\* the keys of ERROR_MAP
ERROR_MAP_KEYS ==
  {"collection_not_found", "collection_already_exists", "invalid_dimension",
   "invalid_payload", "internal_error"}

\* keys ERROR_MAP, an object literal, inherits with a constructor as value
InheritedKeys == {"constructor"}

\* new ERROR_MAP[errorType](message): every class is built with the message as
\* its single argument; for the two collection kinds that argument is the
\* constructor's collectionName
ERROR_MAP(errorType, message) ==
  CASE errorType = "collection_not_found" -> CollectionNotFoundError(message)
    [] errorType = "collection_already_exists" -> CollectionAlreadyExistsError(message)
    [] errorType = "invalid_dimension" -> InvalidDimensionError(message)
    [] errorType = "invalid_payload" -> InvalidPayloadError(message)
    [] errorType = "internal_error" -> InternalError(message)

\* the result of a match that failed
NoMatch == Text("")

\* message.includes("collection '") && message.match(/collection '([^']+)'/):
\* the captured name (the regex is not anchored and the name is not empty),
\* or NoMatch when the message does not match
MatchCollectionName(message) ==
  CASE message = Text("collection 'docs' not found") -> Text("docs")
    [] message = Text("collection 'docs' already exists") -> Text("docs")
    [] message = Text("no such collection 'my-docs'") -> Text("my-docs")
    [] OTHER -> NoMatch

\* variant: the estimate payload is dropped
EstimateOf_dropped(extra) == "{}"

\* extra?.estimate ?? {}
EstimateOf(extra) == IF extra.estimate = "" THEN "{}" ELSE extra.estimate

\* createErrorFromResponse(errorType, message, _code, extra): _code is unused
createErrorFromResponse(errorType, message, code, extra) ==
  IF errorType = "budget_exceeded"
    THEN BudgetExceededError(message, EstimateOf(extra))
  ELSE IF errorType = "collection_not_found" /\ MatchCollectionName(message) # NoMatch
    THEN CollectionNotFoundError(MatchCollectionName(message))
  ELSE IF errorType = "collection_already_exists" /\ MatchCollectionName(message) # NoMatch
    THEN CollectionAlreadyExistsError(MatchCollectionName(message))
  ELSE IF errorType \in ERROR_MAP_KEYS
    THEN ERROR_MAP(errorType, message)
  ELSE IF errorType \in InheritedKeys
    \* ERROR_MAP["constructor"] is Object: new Object(message) is a String object
    THEN RawError("String", message)
  ELSE VectorDBError(message, Undefined)

\* identifiers createErrorFromResponse is called with: those a body may carry
\* in the HTTP model, the interceptor's fallback "unknown", and "constructor",
\* a key every object literal inherits
ErrorTypes ==
  ERROR_MAP_KEYS \cup {"budget_exceeded", "rate_limited", "unknown", "constructor"}
\* messages, codes and extra bodies it is called with
ErrorMessages ==
  {Text("boom"), Text("collection 'docs' not found"),
   Text("collection 'docs' already exists"), Text("no such collection 'my-docs'"),
   Text("collection '' not found"),
   <<"Request failed with status code %d", "", 503>>}
ErrorCodes == {400, 404, 409, 422, 429, 500, 503}
ErrorExtras == {[estimate |-> e] : e \in {"", "E1"}}

\* no call of createErrorFromResponse
NoFn ==
  [pc |-> "none", errorType |-> "", message |-> Text(""), code |-> Undefined,
   extra |-> [estimate |-> ""], result |-> NoError]

\* createErrorFromResponse is about to be called with some arguments
FnInit ==
  fn \in [pc : {"args"}, errorType : ErrorTypes, message : ErrorMessages,
          code : ErrorCodes, extra : ErrorExtras, result : {NoError}]

(***************************************************************************)
(* Outcomes of one HTTP attempt, as the transport reports them before the  *)
(* response interceptor runs.  "" stands for a missing body field, 0 for a *)
(* missing body code.                                                      *)
(***************************************************************************)
Outcome(kind, status, ident, message, bodyCode, estimate) ==
  [kind |-> kind, status |-> status, ident |-> ident, message |-> message,
   bodyCode |-> bodyCode, estimate |-> estimate]

\* error identifiers a response body may carry ("" = none, "rate_limited" =
\* one the client does not know)
Identifiers == ERROR_MAP_KEYS \cup {"budget_exceeded", "rate_limited", ""}

\* HTTP statuses of error responses explored
ErrorStatuses == {404, 503}

\* error responses with a JSON object body
ErrorResponses ==
  { Outcome("response", st, id, m, bc, IF id = "budget_exceeded" THEN "E1" ELSE "") :
      st \in ErrorStatuses, id \in Identifiers,
      m \in {"", "collection 'docs' not found"}, bc \in {0} }

\* failures of an attempt: error responses, a response whose body is JSON
\* null, no response at all (network failure, timeout), request setup failure
Failures ==
  ErrorResponses
    \cup { Outcome("nullbody", 502, "", "", 0, ""),
           Outcome("noresponse", 0, "", "timeout of 30000ms exceeded", 0, ""),
           Outcome("setup", 0, "", "bad config", 0, "") }

\* the failures explored under the batching operations
BatchFailures ==
  { Outcome("response", 503, "internal_error", "boom", 0, ""),
    Outcome("response", 404, "collection_not_found", "collection 'docs' not found", 0, ""),
    Outcome("noresponse", 0, "", "Network Error", 0, "") }

\* the failures explored under search: the budget check refusing the query,
\* with and without an estimate payload, and a server error
SearchFailures ==
  { Outcome("response", 422, "budget_exceeded", "estimated cost exceeds budget", 0, e) :
      e \in {"E1", "E2", ""} }
    \cup { Outcome("response", 503, "internal_error", "boom", 0, "") }

\* x || y on strings
OrElse(x, y) == IF x = "" THEN y ELSE x

\* the typed error built from an error response: errorType, message and code
\* are read from the body with their fallbacks (client.ts, same text in the
\* interceptor and in request's catch block)
FromResponse(o) ==
  LET errorType == OrElse(o.ident, "unknown")
      message == IF o.message # "" THEN Text(o.message)
                 ELSE <<"Request failed with status code %d", "", o.status>>
      code == IF o.bodyCode # 0 THEN o.bodyCode ELSE o.status
  IN createErrorFromResponse(errorType, message, code, o)

\* variant: an attempt without a response is reported as a request timeout
\* with a client-error code
Interceptor_timeout(o) ==
  IF o.kind = "response" THEN FromResponse(o)
  ELSE IF o.kind = "nullbody" THEN
    RawError("TypeError", Text("Cannot read properties of null"))
  ELSE IF o.kind = "noresponse" THEN
    VectorDBError(<<"No response received: %s", o.message, 0>>, 408)
  ELSE VectorDBError(<<"Request setup error: %s", o.message, 0>>, Undefined)

\* the response interceptor's error handler (constructor): what
\* axiosInstance.request() rejects with
Interceptor(o) ==
  IF o.kind = "response" THEN FromResponse(o)
  ELSE IF o.kind = "nullbody" THEN
    \* error.response.data is null: reading errorData.error throws
    RawError("TypeError", Text("Cannot read properties of null"))
  ELSE IF o.kind = "noresponse" THEN
    ConnectionError(<<"No response received: %s", o.message, 0>>)
  ELSE VectorDBError(<<"Request setup error: %s", o.message, 0>>, Undefined)

(***************************************************************************)
(* VectorDBClient.request                                                  *)
(***************************************************************************)
RECURSIVE Pow2(_)
\* Math.pow(2, n)
Pow2(n) == IF n = 0 THEN 1 ELSE 2 * Pow2(n - 1)

\* variant: the path is used as given
NormalizePath_raw(path) == path

\* const url = path.startsWith("/") ? path : `/${path}`
NormalizePath(path) == IF path[1] = "/" THEN path ELSE <<"/">> \o path

\* variant: the lower limit of the client-error range is exclusive
IsClientError_exclusive(error) ==
  error.typed /\ error.code # Undefined /\ error.code > 400 /\ error.code < 500

\* the catch block's first test: a typed error with code in [400,500)
IsClientError(error) ==
  error.typed /\ error.code # Undefined /\ error.code >= 400 /\ error.code < 500

\* variant: the budget test lets the last attempt index through
CanRetry_inclusive(attempt, maxRetries) == attempt <= maxRetries

\* attempt < this.maxRetries
CanRetry(attempt, maxRetries) == attempt < maxRetries

\* variant: linear instead of exponential backoff
WaitTime_linear(retryDelay, attempt) == retryDelay * (attempt + 1)

\* this.retryDelay * Math.pow(2, attempt)
WaitTime(retryDelay, attempt) == retryDelay * Pow2(attempt)

\* variant: exhaustion always raises the attempt-count connection error
ExhaustedError_counted(error, o, maxRetries) ==
  ConnectionError(<<"Request failed after %d attempts: %s", error.name, maxRetries + 1>>)

\* variant: exhaustion rethrows whatever the last attempt threw
ExhaustedError_raw(error, o, maxRetries) == error

\* what the catch block throws once retries are exhausted
ExhaustedError(error, o, maxRetries) ==
  IF error.typed THEN error
  ELSE IF error.name = "AxiosError" /\ o.kind = "response" THEN FromResponse(o)
  ELSE IF error.name = "AxiosError" /\ o.kind = "noresponse" THEN
    ConnectionError(<<"No response received: %s", o.message, 0>>)
  ELSE ConnectionError(<<"Request failed after %d attempts: %s", error.name, maxRetries + 1>>)

(***************************************************************************)
(* Values: response bodies and operation results.                          *)
(***************************************************************************)
NoValue == [shape |-> "none"]
\* a body that matches no declared response shape
Malformed == [shape |-> "malformed"]
\* some body returned to a direct caller of request()
Body == [shape |-> "body"]
UpsertResult(upserted, failed) ==
  [shape |-> "UpsertResult", upserted |-> upserted, failed |-> failed]
DeletePointsResult(deleted) == [shape |-> "DeletePointsResult", deleted |-> deleted]
SearchPointsResponse == [shape |-> "SearchPointsResponse"]
Collection == [shape |-> "Collection"]
CreateKeyResponse == [shape |-> "CreateKeyResponse"]
Failed(p) == [id |-> p.id, reason |-> "rejected"]

\* outcome slots of request() and of the facade operation
Pending == [kind |-> "pending", value |-> NoValue, error |-> NoError]
Returned(value) == [kind |-> "value", value |-> value, error |-> NoError]
Threw(error) == [kind |-> "error", value |-> NoValue, error |-> error]

\* variant: a body of another shape is reported like a server-side rejection
SchemaParse_typed(shape, response) ==
  IF response.shape = shape THEN Returned(response)
  ELSE Threw(InvalidPayloadError(Text(shape)))

\* UpsertResultSchema.parse / DeletePointsResultSchema.parse /
\* SearchPointsResponseSchema.parse / CollectionSchema.parse /
\* CreateKeyResponseSchema.parse
SchemaParse(shape, response) ==
  IF response.shape = shape THEN Returned(response)
  ELSE Threw(RawError("ZodError", Text(shape)))

\* success bodies the server may answer a write of the points pts with
UpsertBodies(pts) ==
  IF Len(pts) = 0 THEN {UpsertResult(0, <<>>), Malformed}
  ELSE { UpsertResult(Len(pts), <<>>), UpsertResult(Len(pts) - 1, <<Failed(pts[1])>>),
         UpsertResult(0, <<Failed(pts[1]), Failed(pts[Len(pts)])>>), Malformed }

\* success bodies by operation
SuccessBodies(c, r) ==
  CASE c.op = "upsertPoints" -> UpsertBodies(r.data.points)
    [] c.op = "deletePoints" -> {DeletePointsResult(Len(r.data.ids)), Malformed}
    [] c.op = "search" -> {SearchPointsResponse, Malformed}
    [] c.op = "createCollection" -> {Collection, Malformed}
    [] c.op = "createKey" -> {CreateKeyResponse, Malformed}
    [] OTHER -> {Body}

\* failures explored by operation
FailuresOf(c) ==
  CASE c.op = "request" -> Failures
    [] c.op = "search" -> SearchFailures
    [] OTHER -> BatchFailures

(***************************************************************************)
(* State.                                                                  *)
(***************************************************************************)
\* an optional field of an argument: not set, or set to a value
None == <<>>
Some(v) == <<v>>
NoQuery ==
  [limit |-> 0, budget_ms |-> Undefined, filter |-> None, namespace |-> None,
   vector_field |-> None]
NoConfig ==
  [name |-> "", dimension |-> 0, distance |-> "", enable_bm25 |-> None,
   bm25_text_field |-> None, quantization |-> None, tiered_storage |-> None]
NoCall ==
  [op |-> "none", collection |-> "", points |-> <<>>, ids |-> <<>>, query |-> NoQuery,
   config |-> NoConfig, name |-> <<>>, method |-> "", path |-> <<>>]
NoData == [none |-> TRUE]
IdleReq == [pc |-> "idle", attempt |-> 0, method |-> "", url |-> <<>>, data |-> NoData,
            caught |-> NoError, out |-> Pending]
IdleUp == [pc |-> "idle", i |-> 0, totalUpserted |-> 0, allFailed |-> <<>>]

\* collection names, request paths and id lists explored
Collections == {"docs", "test-collection"}
Paths == {<<"/", "api/v1/collections">>, <<"api/v1/collections">>}
IdLists == {<<>>, <<"id1">>, <<"id1", "id2">>}
\* input sizes around the chunk boundaries
PointCounts ==
  {k * MAX_BATCH_SIZE + r : k \in 0..(MaxChunks - 1), r \in {0, 1}}
    \cup {MaxChunks * MAX_BATCH_SIZE}
\* the point list of n points: point i has id i (its vector and metadata go
\* with the id) and every third point sets the optional namespace
Points(n) == [i \in 1..n |-> [id |-> i, namespace |-> IF i % 3 = 0 THEN "tenant" ELSE ""]]

\* search queries explored: the vector goes with the limit; budget_ms,
\* filter, namespace and vector_field are optional
SearchQueries ==
  [limit : {10}, budget_ms : {Undefined, 1}, filter : {None, Some("category = 'a'")},
   namespace : {None, Some("tenant")}, vector_field : {None, Some("title_vector")}]

\* collection configurations explored: the required fields, and each optional
\* field set or not
CollectionConfigs ==
  [name : {"docs"}, dimension : {384}, distance : {"Cosine"},
   enable_bm25 : {None, Some(TRUE), Some(FALSE)},
   bm25_text_field : {None, Some("content")},
   quantization : {None, Some("Scalar Int8")},
   tiered_storage : {None, Some("enabled")}]

\* key names explored: strings of up to MaxNameLen characters
NameChars == {" ", "\t", "k", "y"}
Whitespace == {" ", "\t"}
KeyNames == UNION {[1..n -> NameChars] : n \in 0..MaxNameLen}

\* `/api/v1/collections/${collection}/search`
SearchPath(collection) == <<"/", "api/v1/collections", collection, "search">>

\* `/api/v1/collections/${collection}/points`
PointsPath(collection) == <<"/", "api/v1/collections", collection, "points">>

(***************************************************************************)
(* Streaming session (RealtimeClient): values.                             *)
(***************************************************************************)
\* the clock advances in steps of the shorter timeout
TickMs == PONG_TIMEOUT

\* an inbound frame: whether its text is JSON, its type and the fields
\* handleMessage reads; `re` is not on the wire: it is the write (by call
\* number) the server sent an ack for, 0 when the frame answers none
NoFrame ==
  [parses |-> TRUE, type |-> "none", upserted |-> 0, failed |-> 0, took_ms |-> 0,
   message |-> "", code |-> 0, collection |-> "", action |-> "", point_ids |-> <<>>,
   timestamp |-> 0, re |-> 0]
Frame(type) == [NoFrame EXCEPT !.type = type]

\* inbound frames explored: the ack of each write, and an ack no write asked
\* for
AckFrames ==
  {[Frame("ack") EXCEPT !.upserted = 2, !.took_ms = 5, !.re = c] : c \in 1..MaxCalls}
    \cup {[Frame("ack") EXCEPT !.failed = 2, !.took_ms = 7]}
ErrorFrames == {[Frame("error") EXCEPT !.message = "dimension mismatch", !.code = 400]}
EventFrames ==
  {[Frame("event") EXCEPT !.collection = "docs", !.action = "upsert",
                          !.point_ids = <<"id1", "id2">>, !.timestamp = 1700000000],
   [Frame("event") EXCEPT !.collection = "docs", !.action = "delete",
                          !.point_ids = <<"id1">>, !.timestamp = 1700000001]}
\* frames whose text is not JSON: an error frame and an ack frame cut short
GarbageFrames ==
  {[f EXCEPT !.parses = FALSE] : f \in ErrorFrames \cup {Frame("ack")}}
\* the JSON text null, and a frame of a type the client does not know
NullFrame == Frame("null")
UnknownFrame == Frame("welcome")
InboundFrames ==
  AckFrames \cup ErrorFrames \cup EventFrames \cup GarbageFrames
    \cup {Frame("pong"), Frame("ping"), NullFrame, UnknownFrame}

\* the WsAckMessage built from an ack frame
WsAckMessage(f) == [upserted |-> f.upserted, failed |-> f.failed, took_ms |-> f.took_ms]

\* variant: the event handed to listeners has no timestamp
WsEventMessage_untimed(f) ==
  [collection |-> f.collection, action |-> f.action, point_ids |-> f.point_ids,
   timestamp |-> 0]

\* the WsEventMessage built from an event frame
WsEventMessage(f) ==
  [collection |-> f.collection, action |-> f.action, point_ids |-> f.point_ids,
   timestamp |-> f.timestamp]

\* variant: a frame cut short is read as far as it goes
JsonParses_lenient(f) == TRUE

\* JSON.parse(data.toString()) returns
JsonParses(f) == f.parses
\* the value of a call that has none (pending, rejected, or a ping's void)
NoAck == [upserted |-> -1, failed |-> -1, took_ms |-> -1]

\* the payload the socket's error handler emits: {message: err.message, code: 0}
SocketErrorPayload == [Frame("error") EXCEPT !.message = "socket error"]

\* the errors the session raises itself
NotConnectedError ==
  RawError("Error", Text("RealtimeClient is not connected. Call connect() first."))
AckTimeoutError == RawError("Error", Text("Server did not acknowledge within 30 seconds"))
PongTimeoutError == RawError("Error", Text("Pong not received within 10 seconds"))

\* the data operations and the pending slot each one waits in
DataOps == {"upsert", "subscribe", "ping"}
SlotOf(kind) == IF kind = "ping" THEN "pong" ELSE "ack"
TimeoutOf(slot) == IF slot = "pong" THEN PONG_TIMEOUT ELSE ACK_TIMEOUT
TimeoutErrorOf(slot) == IF slot = "pong" THEN PongTimeoutError ELSE AckTimeoutError

\* how many listeners the caller registers for each of "event", "error", "close"
ListenerCounts == {0, 2}

\* the step a session starts from
NoStep == [ev |-> "init", id |-> 0, frame |-> NoFrame]
Step(ev, id, frame) == [ev |-> ev, id |-> id, frame |-> frame]

\* the session after construction, before any listener is registered
RtFresh ==
  /\ ws = 0
  /\ connected = FALSE
  /\ pendingAck = 0
  /\ pendingPong = 0
  /\ socks = <<>>
  /\ calls = <<>>
  /\ timers = {}
  /\ wsSent = <<>>
  /\ heard = <<>>
  /\ unhandled = FALSE
  /\ rtLast = NoStep

\* a session nobody uses
RtIdle == RtFresh /\ listeners = 0

\* variant: the Authorization header is set whatever the apiKey
Headers_always(apiKey) ==
  [ContentType |-> "application/json", Authorization |-> <<"Bearer %s", apiKey>>]

\* the default headers the constructor gives the axios instance
Headers(apiKey) ==
  IF apiKey # ""
    THEN [ContentType |-> "application/json", Authorization |-> <<"Bearer %s", apiKey>>]
    ELSE [ContentType |-> "application/json"]

\* what the constructor keeps of its validated options
Options(maxRetries, retryDelay, apiKey) ==
  [maxRetries |-> maxRetries, retryDelay |-> retryDelay, apiKey |-> apiKey,
   headers |-> Headers(apiKey)]

\* no request() call is running side by side with another
ParIdle ==
  [i \in 1..MaxPar |-> [req |-> IdleReq, hist |-> <<>>, sleeps |-> <<>>, sent |-> 0,
                        during |-> FALSE]]

\* the client after construction (options validated: maxRetries >= 0,
\* retryDelay > 0, apiKey not empty); no operation called yet
Init ==
  /\ cfg \in {Options(r, d, k) : r \in 0..MaxRetries, d \in RetryDelays, k \in ApiKeys}
  /\ call = NoCall
  /\ up = IdleUp
  /\ req = IdleReq
  /\ hist = <<>>
  /\ sleeps = <<>>
  /\ net = <<>>
  /\ batches = <<>>
  /\ results = <<>>
  /\ ret = Pending
  /\ RtIdle
  /\ fn = NoFn
  /\ par = ParIdle

\* request(method, path, data) up to its first await
StartRequest(method, path, data) ==
  [pc |-> "try", attempt |-> 0, method |-> method, url |-> NormalizePath(path),
   data |-> data, caught |-> NoError, out |-> Pending]

\* variant: the slice starts one element late
Slice_late(points, i) ==
  SubSeq(points, i + 2, IF i + MAX_BATCH_SIZE < Len(points) THEN i + MAX_BATCH_SIZE
                        ELSE Len(points))

\* points.slice(i, i + MAX_BATCH_SIZE)
Slice(points, i) ==
  SubSeq(points, i + 1, IF i + MAX_BATCH_SIZE < Len(points) THEN i + MAX_BATCH_SIZE
                        ELSE Len(points))

\* variant: the call is not awaited
Settled_unawaited(r) == TRUE

\* an awaited promise has settled
Settled(r) == r.pc = "done"

(***************************************************************************)
(* VectorDBClient.request: one HTTP attempt is sent, settles, and is       *)
(* followed by a backoff sleep or by the end of the call.                  *)
(***************************************************************************)
\* axiosInstance.request({method, url, data}) puts the attempt on the network
HttpSend ==
  /\ req.pc = "try"
  /\ req' = [req EXCEPT !.pc = "inflight"]
  /\ net' = Append(net, [method |-> req.method, url |-> req.url, data |-> req.data,
                         call |-> Len(batches), attempt |-> req.attempt,
                         headers |-> cfg.headers])
  /\ UNCHANGED <<cfg, call, up, hist, sleeps, batches, results, ret>>
  /\ UNCHANGED <<rtVars, fn, par>>

\* variant: a success after a failed attempt still raises the error caught
\* before
HttpSucceed_stale ==
  /\ req.pc = "inflight"
  /\ \E body \in SuccessBodies(call, req) :
       req' = [req EXCEPT !.pc = "done",
                          !.out = IF req.caught = NoError THEN Returned(body)
                                  ELSE Threw(req.caught)]
  /\ hist' = Append(hist, [kind |-> "ok", status |-> 200, ident |-> "", estimate |-> ""])
  /\ UNCHANGED <<cfg, call, up, sleeps, net, batches, results, ret>>
  /\ UNCHANGED <<rtVars, fn, par>>

\* the attempt resolves: return response.data
HttpSucceed ==
  /\ req.pc = "inflight"
  /\ \E body \in SuccessBodies(call, req) :
       req' = [req EXCEPT !.pc = "done", !.out = Returned(body)]
  /\ hist' = Append(hist, [kind |-> "ok", status |-> 200, ident |-> "", estimate |-> ""])
  /\ UNCHANGED <<cfg, call, up, sleeps, net, batches, results, ret>>
  /\ UNCHANGED <<rtVars, fn, par>>

\* the attempt rejects: the catch block of request()
HttpFail ==
  /\ req.pc = "inflight"
  /\ \E o \in FailuresOf(call) :
       LET error == Interceptor(o) IN
       /\ hist' = Append(hist, [kind |-> o.kind, status |-> o.status, ident |-> o.ident,
                                estimate |-> o.estimate])
       /\ IF IsClientError(error) THEN
            /\ req' = [req EXCEPT !.pc = "done", !.caught = error, !.out = Threw(error)]
            /\ sleeps' = sleeps
          ELSE IF CanRetry(req.attempt, cfg.maxRetries) THEN
            /\ req' = [req EXCEPT !.pc = "sleep", !.caught = error]
            /\ sleeps' = Append(sleeps, WaitTime(cfg.retryDelay, req.attempt))
          ELSE
            /\ req' = [req EXCEPT !.pc = "done", !.caught = error,
                                  !.out = Threw(ExhaustedError(error, o, cfg.maxRetries))]
            /\ sleeps' = sleeps
  /\ UNCHANGED <<cfg, call, up, net, batches, results, ret>>
  /\ UNCHANGED <<rtVars, fn, par>>

\* the backoff timer fires: continue with attempt + 1
SleepDone ==
  /\ req.pc = "sleep"
  /\ req' = [req EXCEPT !.pc = "try", !.attempt = req.attempt + 1]
  /\ UNCHANGED <<cfg, call, up, hist, sleeps, net, batches, results, ret>>
  /\ UNCHANGED <<rtVars, fn, par>>

(***************************************************************************)
(* The operations.                                                         *)
(***************************************************************************)
\* a caller invokes request(method, path) directly
CallRequest ==
  /\ call.op = "none"
  /\ \E method \in {"GET", "POST"}, path \in Paths :
       /\ call' = [NoCall EXCEPT !.op = "request", !.method = method, !.path = path]
       /\ req' = StartRequest(method, path, NoData)
  /\ up' = [up EXCEPT !.pc = "tail"]
  /\ UNCHANGED <<cfg, hist, sleeps, net, batches, results, ret>>
  /\ UNCHANGED <<rtVars, fn, par>>

\* p => ({id: p.id, vector: p.vector, metadata: p.metadata})
WirePoint(p) == [id |-> p.id]

\* upsertBatch(collection, points) up to its await of request()
upsertBatch(collection, points) ==
  StartRequest("POST", PointsPath(collection),
               [points |-> [i \in 1..Len(points) |-> WirePoint(points[i])]])

\* variant: the empty-input check is missing
EmptyPoints_unchecked(points) == FALSE

\* points.length === 0
EmptyPoints(points) == Len(points) = 0

\* variant: the empty-ids check is missing
EmptyIds_unchecked(ids) == FALSE

\* ids.length === 0
EmptyIds(ids) == Len(ids) = 0

\* totalUpserted += result.upserted
AddUpserted(totalUpserted, result) == totalUpserted + result.upserted

\* variant: the chunk's failures are put in front
PushFailed_front(allFailed, result) == result.failed \o allFailed

\* allFailed.push(...result.failed)
PushFailed(allFailed, result) == allFailed \o result.failed

\* variant: a failed chunk ends the loop with the partial aggregate
ChunkFailure_partial(u, result) == Returned(UpsertResult(u.totalUpserted, u.allFailed))

\* a rejected `await this.upsertBatch(...)` leaves upsertPoints as an exception
ChunkFailure(u, result) == Threw(result.error)

\* upsertPoints(collection, points) up to its first await
CallUpsertPoints ==
  /\ call.op = "none"
  /\ cfg.maxRetries <= MaxBatchRetries
  /\ \E collection \in Collections, n \in PointCounts :
       LET points == Points(n) IN
       /\ call' = [NoCall EXCEPT !.op = "upsertPoints", !.collection = collection,
                                 !.points = points]
       /\ IF EmptyPoints(points) THEN
            /\ ret' = Returned(UpsertResult(0, <<>>))
            /\ up' = [up EXCEPT !.pc = "done"]
            /\ UNCHANGED <<req, batches>>
          ELSE IF Len(points) <= MAX_BATCH_SIZE THEN
            /\ req' = upsertBatch(collection, points)
            /\ batches' = Append(batches, points)
            /\ up' = [up EXCEPT !.pc = "tail"]
            /\ ret' = ret
          ELSE
            /\ req' = upsertBatch(collection, Slice(points, 0))
            /\ batches' = Append(batches, Slice(points, 0))
            /\ up' = [up EXCEPT !.pc = "await"]
            /\ ret' = ret
  /\ UNCHANGED <<cfg, hist, sleeps, net, results>>
  /\ UNCHANGED <<rtVars, fn, par>>

\* the loop of upsertPoints resumes after `await this.upsertBatch(...)`:
\* aggregate the chunk's result, then start the next chunk or return
BatchReturn ==
  /\ up.pc = "await"
  /\ Settled(req)
  /\ LET result == IF req.out.kind = "value"
                     THEN SchemaParse("UpsertResult", req.out.value)
                     ELSE Threw(req.out.error)
     IN
     IF result.kind = "value" THEN
       LET totalUpserted == AddUpserted(up.totalUpserted, result.value)
           allFailed == PushFailed(up.allFailed, result.value)
           i == up.i + MAX_BATCH_SIZE
       IN
       IF i < Len(call.points) THEN
         /\ up' = [pc |-> "await", i |-> i, totalUpserted |-> totalUpserted,
                   allFailed |-> allFailed]
         /\ req' = upsertBatch(call.collection, Slice(call.points, i))
         /\ batches' = Append(batches, Slice(call.points, i))
         /\ results' = Append(results, result.value)
         /\ hist' = <<>>
         /\ sleeps' = <<>>
         /\ ret' = ret
       ELSE
         /\ up' = [pc |-> "done", i |-> i, totalUpserted |-> totalUpserted,
                   allFailed |-> allFailed]
         /\ results' = Append(results, result.value)
         /\ ret' = Returned(UpsertResult(totalUpserted, allFailed))
         /\ UNCHANGED <<req, batches, hist, sleeps>>
     ELSE
       /\ up' = [up EXCEPT !.pc = "done"]
       /\ ret' = ChunkFailure(up, result)
       /\ UNCHANGED <<req, batches, results, hist, sleeps>>
  /\ UNCHANGED <<cfg, call, net>>
  /\ UNCHANGED <<rtVars, fn, par>>

\* deletePoints(collection, ids) up to its first await
CallDeletePoints ==
  /\ call.op = "none"
  /\ cfg.maxRetries <= MaxBatchRetries
  /\ \E collection \in Collections, ids \in IdLists :
       /\ call' = [NoCall EXCEPT !.op = "deletePoints", !.collection = collection,
                                 !.ids = ids]
       /\ IF EmptyIds(ids) THEN
            /\ ret' = Threw(InvalidPayloadError(Text("ids cannot be empty")))
            /\ up' = [up EXCEPT !.pc = "done"]
            /\ req' = req
          ELSE
            /\ req' = StartRequest("DELETE", PointsPath(collection), [ids |-> ids])
            /\ up' = [up EXCEPT !.pc = "tail"]
            /\ ret' = ret
  /\ UNCHANGED <<cfg, hist, sleeps, net, batches, results>>
  /\ UNCHANGED <<rtVars, fn, par>>

\* the body search() sends: vector and limit, filter when it is set and
\* budget_ms when it is set; no other field of the query is read
SearchBody(query) ==
  LET body == IF query.filter # None
                THEN [limit |-> query.limit, filter |-> query.filter[1]]
                ELSE [limit |-> query.limit]
  IN IF query.budget_ms # Undefined THEN body @@ ("budget_ms" :> query.budget_ms) ELSE body

\* search(collection, query) up to its await of request()
CallSearch ==
  /\ call.op = "none"
  /\ cfg.maxRetries <= MaxBatchRetries
  /\ \E collection \in Collections, query \in SearchQueries :
       /\ call' = [NoCall EXCEPT !.op = "search", !.collection = collection,
                                 !.query = query]
       /\ req' = StartRequest("POST", SearchPath(collection), SearchBody(query))
  /\ up' = [up EXCEPT !.pc = "tail"]
  /\ UNCHANGED <<cfg, hist, sleeps, net, batches, results, ret>>
  /\ UNCHANGED <<rtVars, fn, par>>

\* variant: an optional field that is not set is sent as null
WithField_null(body, key, value) ==
  IF value # None THEN body @@ (key :> value[1]) ELSE body @@ (key :> "null")

\* if (config[key] !== undefined) body[key] = config[key]
WithField(body, key, value) ==
  IF value # None THEN body @@ (key :> value[1]) ELSE body

\* the body createCollection builds
CollectionBody(config) ==
  WithField(
    WithField(
      WithField(
        WithField([name |-> config.name, dimension |-> config.dimension,
                   distance |-> config.distance],
                  "enable_bm25", config.enable_bm25),
        "bm25_text_field", config.bm25_text_field),
      "quantization", config.quantization),
    "tiered_storage", config.tiered_storage)

\* createCollection(config) up to its await of request()
CallCreateCollection ==
  /\ call.op = "none"
  /\ cfg.maxRetries <= MaxBatchRetries
  /\ \E config \in CollectionConfigs :
       /\ call' = [NoCall EXCEPT !.op = "createCollection", !.config = config]
       /\ req' = StartRequest("POST", <<"/", "api/v1/collections">>, CollectionBody(config))
  /\ up' = [up EXCEPT !.pc = "tail"]
  /\ UNCHANGED <<cfg, hist, sleeps, net, batches, results, ret>>
  /\ UNCHANGED <<rtVars, fn, par>>

RECURSIVE TrimStart(_)
\* the string without its leading whitespace
TrimStart(name) ==
  IF name # <<>> /\ Head(name) \in Whitespace THEN TrimStart(Tail(name)) ELSE name

RECURSIVE TrimEnd(_)
\* the string without its trailing whitespace
TrimEnd(name) ==
  IF name # <<>> /\ name[Len(name)] \in Whitespace
    THEN TrimEnd(SubSeq(name, 1, Len(name) - 1)) ELSE name

\* variant: only leading whitespace is removed
Trim_start(name) == TrimStart(name)

\* name.trim()
Trim(name) == TrimEnd(TrimStart(name))

\* createKey(name) up to its await of request()
CallCreateKey ==
  /\ call.op = "none"
  /\ cfg.maxRetries <= MaxBatchRetries
  /\ \E name \in KeyNames :
       LET trimmed == Trim(name) IN
       /\ call' = [NoCall EXCEPT !.op = "createKey", !.name = name]
       /\ IF trimmed = <<>> THEN
            /\ ret' = Threw(InvalidPayloadError(Text("name is required")))
            /\ up' = [up EXCEPT !.pc = "done"]
            /\ req' = req
          ELSE
            /\ req' = StartRequest("POST", <<"/", "api/v1/keys">>, [name |-> trimmed])
            /\ up' = [up EXCEPT !.pc = "tail"]
            /\ ret' = ret
  /\ UNCHANGED <<cfg, hist, sleeps, net, batches, results>>
  /\ UNCHANGED <<rtVars, fn, par>>

\* the operation resumes after its single awaited request() and returns:
\* request() itself hands back the body; upsertBatch, deletePoints, search,
\* createCollection and createKey parse it
TailReturn ==
  /\ up.pc = "tail"
  /\ Settled(req)
  /\ LET result == IF req.out.kind # "value" THEN Threw(req.out.error)
                   ELSE IF call.op = "upsertPoints"
                     THEN SchemaParse("UpsertResult", req.out.value)
                   ELSE IF call.op = "deletePoints"
                     THEN SchemaParse("DeletePointsResult", req.out.value)
                   ELSE IF call.op = "search"
                     THEN SchemaParse("SearchPointsResponse", req.out.value)
                   ELSE IF call.op = "createCollection"
                     THEN SchemaParse("Collection", req.out.value)
                   ELSE IF call.op = "createKey"
                     THEN SchemaParse("CreateKeyResponse", req.out.value)
                   ELSE req.out
     IN
     /\ ret' = result
     /\ results' = IF call.op = "upsertPoints" /\ result.kind = "value"
                     THEN Append(results, result.value) ELSE results
  /\ up' = [up EXCEPT !.pc = "done"]
  /\ UNCHANGED <<cfg, call, req, hist, sleeps, net, batches>>
  /\ UNCHANGED <<rtVars, fn, par>>

Next ==
  \/ CallRequest
  \/ CallUpsertPoints
  \/ CallDeletePoints
  \/ CallSearch
  \/ CallCreateCollection
  \/ CallCreateKey
  \/ HttpSend
  \/ HttpSucceed
  \/ HttpFail
  \/ SleepDone
  \/ BatchReturn
  \/ TailReturn

Spec == Init /\ [][Next]_vars

\* the steps request() takes by itself: it sends the attempt it has prepared,
\* an attempt on the network settles, a backoff timer fires
RequestStep == HttpSend \/ HttpSucceed \/ HttpFail \/ SleepDone

\* the client constructed with one delay and one key, and each retry budget
LiveInit == Init /\ cfg.retryDelay = 1000 /\ cfg.apiKey = "ferres_sk_abc123"

\* request() called directly and once per chunk by upsertPoints
LiveNext ==
  \/ CallRequest
  \/ CallUpsertPoints
  \/ HttpSend
  \/ HttpSucceed
  \/ HttpFail
  \/ SleepDone
  \/ BatchReturn
  \/ TailReturn

\* the client with every single attempt and every sleep terminating, and the
\* operation awaiting request() resumed once it has settled
SpecLive ==
  /\ LiveInit /\ [][LiveNext]_vars
  /\ WF_vars(RequestStep)
  /\ WF_vars(BatchReturn \/ TailReturn)

(***************************************************************************)
(* request() calls running side by side on one client: each call has the   *)
(* locals of its own invocation; the client's fields are read only.        *)
(***************************************************************************)
\* variant: the backoff delay is waited out without yielding
SleepBlocks_busy == TRUE

\* sleep(ms) is a promise resolved by setTimeout: the caller is suspended at
\* its await and nothing else is held up
SleepBlocks == FALSE

\* another call's backoff holds up call i
HeldUp(i) == SleepBlocks /\ \E j \in 1..MaxPar : j # i /\ par[j].req.pc = "sleep"

\* some other call is in its backoff sleep
OtherSleeps(i) == \E j \in 1..MaxPar : j # i /\ par[j].req.pc = "sleep"

\* request(method, path) is called while other calls may be running
ParCall(i) ==
  /\ par[i].req.pc = "idle"
  /\ ~HeldUp(i)
  /\ \E path \in Paths :
       par' = [par EXCEPT ![i].req = StartRequest("GET", path, NoData),
                          ![i].during = OtherSleeps(i)]
  /\ UNCHANGED <<httpVars, rtVars, fn>>

\* axiosInstance.request(...) of call i
ParSend(i) ==
  /\ par[i].req.pc = "try"
  /\ ~HeldUp(i)
  /\ par' = [par EXCEPT ![i].req.pc = "inflight", ![i].sent = @ + 1]
  /\ UNCHANGED <<httpVars, rtVars, fn>>

\* the attempt of call i resolves
ParSucceed(i) ==
  /\ par[i].req.pc = "inflight"
  /\ ~HeldUp(i)
  /\ par' = [par EXCEPT ![i].req.pc = "done", ![i].req.out = Returned(Body),
                        ![i].hist = Append(@, [kind |-> "ok", status |-> 200,
                                               ident |-> "", estimate |-> ""])]
  /\ UNCHANGED <<httpVars, rtVars, fn>>

\* the attempt of call i rejects: the catch block of request()
ParFail(i) ==
  /\ par[i].req.pc = "inflight"
  /\ ~HeldUp(i)
  /\ \E o \in BatchFailures :
       LET error == Interceptor(o)
           r == par[i].req
           h == Append(par[i].hist, [kind |-> o.kind, status |-> o.status,
                                     ident |-> o.ident, estimate |-> o.estimate])
       IN
       IF IsClientError(error) THEN
         par' = [par EXCEPT ![i].req = [r EXCEPT !.pc = "done", !.caught = error,
                                                 !.out = Threw(error)],
                            ![i].hist = h]
       ELSE IF CanRetry(r.attempt, cfg.maxRetries) THEN
         par' = [par EXCEPT ![i].req = [r EXCEPT !.pc = "sleep", !.caught = error],
                            ![i].hist = h,
                            ![i].sleeps = Append(@, WaitTime(cfg.retryDelay, r.attempt))]
       ELSE
         par' = [par EXCEPT ![i].req =
                              [r EXCEPT !.pc = "done", !.caught = error,
                                        !.out = Threw(ExhaustedError(error, o,
                                                                     cfg.maxRetries))],
                            ![i].hist = h]
  /\ UNCHANGED <<httpVars, rtVars, fn>>

\* the backoff timer of call i fires: continue with attempt + 1
ParSleepDone(i) ==
  /\ par[i].req.pc = "sleep"
  /\ par' = [par EXCEPT ![i].req.pc = "try", ![i].req.attempt = @ + 1]
  /\ UNCHANGED <<httpVars, rtVars, fn>>

\* a client whose operations are called side by side
ParInit ==
  /\ cfg \in {Options(r, d, "") : r \in 0..MaxParRetries, d \in RetryDelays}
  /\ call = NoCall
  /\ up = IdleUp
  /\ req = IdleReq
  /\ hist = <<>>
  /\ sleeps = <<>>
  /\ net = <<>>
  /\ batches = <<>>
  /\ results = <<>>
  /\ ret = Pending
  /\ RtIdle
  /\ fn = NoFn
  /\ par = ParIdle

ParNext ==
  \E i \in 1..MaxPar :
    \/ ParCall(i)
    \/ ParSend(i)
    \/ ParSucceed(i)
    \/ ParFail(i)
    \/ ParSleepDone(i)

SpecPar == ParInit /\ [][ParNext]_vars

(***************************************************************************)
(* Streaming session (RealtimeClient): the caller's operations, the        *)
(* socket's events, the timers and the clock.                              *)
(***************************************************************************)
\* this.emit(event, payload): one delivery per registered listener, in
\* registration order
Emit(event, payload) ==
  [i \in 1..listeners |-> [event |-> event, listener |-> i, payload |-> payload]]

\* EventEmitter.emit("error", ...) with no listener registered throws
EmitThrows(event) == event = "error" /\ listeners = 0

\* a step that emits nothing, sends nothing and throws nothing
Quiet == heard' = <<>> /\ wsSent' = <<>> /\ unhandled' = FALSE

\* the call a slot holds settles: resolve(value) or reject(error)
Resolve(cs, id, value) ==
  [cs EXCEPT ![id] = [@ EXCEPT !.status = "resolved", !.value = value]]
Reject(cs, id, error) ==
  [cs EXCEPT ![id] = [@ EXCEPT !.status = "rejected", !.error = error]]

\* variant: the connected check is skipped
ensureConnected_unchecked == TRUE

\* ensureConnected() returns without throwing
ensureConnected == connected /\ ws # 0

\* the caller awaits each correlated call before issuing the next of its kind
Awaited(kind) ==
  \A c \in 1..Len(calls) :
    SlotOf(calls[c].kind) = SlotOf(kind) => calls[c].status # "pending"

\* connect(): a new socket is created, held in this.ws, and its four handlers
\* are attached; the returned promise is pending
RtConnect ==
  /\ socks' = Append(socks, [state |-> "connecting", promise |-> "pending"])
  /\ ws' = Len(socks) + 1
  /\ rtLast' = Step("connect", Len(socks) + 1, NoFrame)
  /\ Quiet
  /\ UNCHANGED <<connected, pendingAck, pendingPong, calls, timers, listeners>>
  /\ UNCHANGED <<httpVars, fn, par>>

\* ws.close() on a socket: an open socket starts its closing handshake, a
\* connecting one aborts its handshake
SocketClosed(state) ==
  CASE state = "open" -> "closing"
    [] state = "connecting" -> "aborted"
    [] OTHER -> state

\* close()
RtClose ==
  /\ IF ws # 0
       THEN /\ connected' = FALSE
            /\ socks' = [socks EXCEPT ![ws].state = SocketClosed(@)]
            /\ ws' = 0
       ELSE UNCHANGED <<connected, socks, ws>>
  /\ rtLast' = Step("close()", ws, NoFrame)
  /\ Quiet
  /\ UNCHANGED <<pendingAck, pendingPong, calls, timers, listeners>>
  /\ UNCHANGED <<httpVars, fn, par>>

\* the "open" handler of socket s
SockOpen(s) ==
  /\ socks[s].state = "connecting"
  /\ connected' = TRUE
  /\ socks' = [socks EXCEPT ![s] = [state |-> "open",
                 promise |-> IF @.promise = "pending" THEN "resolved" ELSE @.promise]]
  /\ rtLast' = Step("open", s, NoFrame)
  /\ Quiet
  /\ UNCHANGED <<ws, pendingAck, pendingPong, calls, timers, listeners>>
  /\ UNCHANGED <<httpVars, fn, par>>

\* the "error" handler of socket s: the socket reports an error (a failed or
\* aborted handshake, a broken connection); its close event follows
SockError(s) ==
  /\ socks[s].state \in {"connecting", "aborted", "open"}
  /\ socks' = [socks EXCEPT ![s] = [state |-> "errored",
                 promise |-> IF ~connected /\ @.promise = "pending" THEN "rejected"
                             ELSE @.promise]]
  /\ heard' = Emit("error", SocketErrorPayload)
  /\ unhandled' = EmitThrows("error")
  /\ wsSent' = <<>>
  /\ rtLast' = Step("error", s, NoFrame)
  /\ UNCHANGED <<ws, connected, pendingAck, pendingPong, calls, timers, listeners>>
  /\ UNCHANGED <<httpVars, fn, par>>

\* the "close" handler of socket s
SockClose(s) ==
  /\ socks[s].state \in {"open", "closing", "errored"}
  /\ socks' = [socks EXCEPT ![s].state = "closed"]
  /\ connected' = FALSE
  /\ heard' = Emit("close", NoFrame)
  /\ unhandled' = EmitThrows("close")
  /\ wsSent' = <<>>
  /\ rtLast' = Step("close", s, NoFrame)
  /\ UNCHANGED <<ws, pendingAck, pendingPong, calls, timers, listeners>>
  /\ UNCHANGED <<httpVars, fn, par>>

\* sendAndWaitAck(msg) and the promise body of ping(): the resolver goes in
\* the slot, the frame is handed to this.ws and the timeout is armed
SendAndWait(kind, id) ==
  /\ calls' = Append(calls, [kind |-> kind, status |-> "pending", value |-> NoAck,
                             error |-> NoError])
  /\ IF SlotOf(kind) = "ack"
       THEN pendingAck' = id /\ UNCHANGED pendingPong
       ELSE pendingPong' = id /\ UNCHANGED pendingAck
  /\ wsSent' = <<[type |-> kind, sock |-> ws, call |-> id]>>
  /\ timers' = timers \cup {[call |-> id, slot |-> SlotOf(kind),
                             left |-> TimeoutOf(SlotOf(kind))]}

\* upsert() / subscribe() / ping(): ensureConnected() throws out of the async
\* function, or the call is sent and waits in its slot
Invoke(kind) ==
  /\ IF ensureConnected
       THEN SendAndWait(kind, Len(calls) + 1)
       ELSE /\ calls' = Append(calls, [kind |-> kind, status |-> "rejected",
                                       value |-> NoAck, error |-> NotConnectedError])
            /\ wsSent' = <<>>
            /\ UNCHANGED <<pendingAck, pendingPong, timers>>
  /\ heard' = <<>>
  /\ unhandled' = FALSE
  /\ rtLast' = Step(kind, Len(calls) + 1, NoFrame)
  /\ UNCHANGED <<ws, connected, socks, listeners>>
  /\ UNCHANGED <<httpVars, fn, par>>

\* a data operation of a caller that awaits each correlated call
RtCall(kind) == Awaited(kind) /\ Invoke(kind)

\* variant: the ack resolves the call but stays in the slot
AckSlot_kept(slot) == slot

\* this.pendingAck = null after the slot's call is settled
AckSlot(slot) == 0

\* variant: a server ping is never answered
CanPong_never == FALSE

\* case "ping": if (this.ws && this.connected)
CanPong == ws # 0 /\ connected

\* variant: the typed error of an error frame loses the frame's code
FrameError_uncoded(f) == VectorDBError(Text(f.message), Undefined)

\* new VectorDBError(error.message, error.code)
FrameError(f) == VectorDBError(Text(f.message), f.code)

\* handleMessage(data) for a frame of socket s
SockMessage(s, f) ==
  /\ socks[s].state \in {"open", "closing"}
  /\ rtLast' = Step("message", s, f)
  /\ IF ~JsonParses(f) THEN
       \* catch { return; }
       /\ Quiet
       /\ UNCHANGED <<calls, pendingAck, pendingPong>>
     ELSE
       CASE f.type = "ack" ->
            /\ IF pendingAck # 0
                 THEN /\ calls' = Resolve(calls, pendingAck, WsAckMessage(f))
                      /\ pendingAck' = AckSlot(pendingAck)
                 ELSE UNCHANGED <<calls, pendingAck>>
            /\ Quiet
            /\ UNCHANGED pendingPong
       [] f.type = "pong" ->
            /\ IF pendingPong # 0
                 THEN /\ calls' = Resolve(calls, pendingPong, NoAck)
                      /\ pendingPong' = 0
                 ELSE UNCHANGED <<calls, pendingPong>>
            /\ Quiet
            /\ UNCHANGED pendingAck
       [] f.type = "event" ->
            /\ heard' = Emit("event", WsEventMessage(f))
            /\ unhandled' = EmitThrows("event")
            /\ wsSent' = <<>>
            /\ UNCHANGED <<calls, pendingAck, pendingPong>>
       [] f.type = "error" ->
            /\ IF pendingAck # 0
                 THEN /\ calls' = Reject(calls, pendingAck, FrameError(f))
                      /\ pendingAck' = 0
                 ELSE UNCHANGED <<calls, pendingAck>>
            /\ heard' = Emit("error", f)
            /\ unhandled' = EmitThrows("error")
            /\ wsSent' = <<>>
            /\ UNCHANGED pendingPong
       [] f.type = "ping" ->
            /\ wsSent' = IF CanPong THEN <<[type |-> "pong", sock |-> ws, call |-> 0]>>
                         ELSE <<>>
            /\ heard' = <<>>
            /\ unhandled' = FALSE
            /\ UNCHANGED <<calls, pendingAck, pendingPong>>
       [] f.type = "null" ->
            \* parsed is null: reading parsed.type throws a TypeError
            /\ unhandled' = TRUE
            /\ heard' = <<>>
            /\ wsSent' = <<>>
            /\ UNCHANGED <<calls, pendingAck, pendingPong>>
       [] OTHER ->
            /\ Quiet
            /\ UNCHANGED <<calls, pendingAck, pendingPong>>
  /\ UNCHANGED <<ws, connected, socks, timers, listeners>>
  /\ UNCHANGED <<httpVars, fn, par>>

\* variant: the timeout rejects the call but leaves it in the slot
TimeoutSlot_kept(slot) == slot

\* this.pendingAck = null / this.pendingPong = null after the timeout's reject
TimeoutSlot(slot) == 0

\* a setTimeout callback runs when its delay has elapsed: it rejects whatever
\* call the slot holds at that moment
RtTimer(t) ==
  /\ t.left = 0
  /\ timers' = timers \ {t}
  /\ LET slot == IF t.slot = "ack" THEN pendingAck ELSE pendingPong IN
     /\ calls' = IF slot # 0 THEN Reject(calls, slot, TimeoutErrorOf(t.slot)) ELSE calls
     /\ pendingAck' = IF t.slot = "ack" /\ slot # 0 THEN TimeoutSlot(slot) ELSE pendingAck
     /\ pendingPong' = IF t.slot = "pong" /\ slot # 0 THEN TimeoutSlot(slot)
                       ELSE pendingPong
  /\ rtLast' = Step("timer", t.call, NoFrame)
  /\ Quiet
  /\ UNCHANGED <<ws, connected, socks, listeners>>
  /\ UNCHANGED <<httpVars, fn, par>>

\* variant: time stands still
Elapse_frozen(ts) == 0

\* TickMs pass, or less when a timer is due sooner; a timer that is due fires
\* before time moves on
Elapse(ts) ==
  IF \E t \in ts : t.left < TickMs
    THEN CHOOSE d \in {t.left : t \in ts} : \A t \in ts : d <= t.left
    ELSE TickMs

RtTick ==
  /\ \A t \in timers : t.left > 0
  /\ timers' = {[t EXCEPT !.left = @ - Elapse(timers)] : t \in timers}
  /\ rtLast' = Step("tick", 0, NoFrame)
  /\ Quiet
  /\ UNCHANGED <<ws, connected, pendingAck, pendingPong, socks, calls, listeners>>
  /\ UNCHANGED <<httpVars, fn, par>>

\* a streaming session after construction, with its listeners registered
RtInit ==
  /\ cfg = Options(0, 1, "")
  /\ call = NoCall
  /\ up = IdleUp
  /\ req = IdleReq
  /\ hist = <<>>
  /\ sleeps = <<>>
  /\ net = <<>>
  /\ batches = <<>>
  /\ results = <<>>
  /\ ret = Pending
  /\ RtFresh
  /\ listeners \in ListenerCounts
  /\ fn = NoFn
  /\ par = ParIdle

\* the steps of a session that makes data calls over its connection: at most
\* MaxSockets connect() calls and MaxCalls data operations
RtNext ==
  \/ Len(socks) < MaxSockets /\ RtConnect
  \/ RtClose
  \/ \E s \in 1..Len(socks) : SockOpen(s)
  \/ \E s \in 1..Len(socks) : SockError(s)
  \/ \E s \in 1..Len(socks) : SockClose(s)
  \/ \E s \in 1..Len(socks), f \in InboundFrames : SockMessage(s, f)
  \/ Len(calls) < MaxCalls /\ \E kind \in DataOps : RtCall(kind)
  \/ \E t \in timers : RtTimer(t)
  \/ RtTick

SpecRT == RtInit /\ [][RtNext]_vars

\* the session with time passing and every timer that is due run by the
\* event loop
SpecRTLive ==
  /\ RtInit /\ [][RtNext]_vars
  /\ WF_vars(RtTick)
  /\ WF_vars(\E t \in timers : RtTimer(t))

\* the steps of a session whose caller issues data operations without
\* awaiting the ones before
FreeNext ==
  \/ Len(socks) < MaxSockets /\ RtConnect
  \/ RtClose
  \/ \E s \in 1..Len(socks) : SockOpen(s)
  \/ \E s \in 1..Len(socks) : SockError(s)
  \/ \E s \in 1..Len(socks) : SockClose(s)
  \/ \E s \in 1..Len(socks), f \in InboundFrames : SockMessage(s, f)
  \/ Len(calls) < MaxCalls /\ \E kind \in DataOps : Invoke(kind)
  \/ \E t \in timers : RtTimer(t)
  \/ RtTick

SpecFree == RtInit /\ [][FreeNext]_vars

(***************************************************************************)
(* createErrorFromResponse called directly.                                *)
(***************************************************************************)
ErrInit ==
  /\ cfg = Options(0, 1, "")
  /\ call = NoCall
  /\ up = IdleUp
  /\ req = IdleReq
  /\ hist = <<>>
  /\ sleeps = <<>>
  /\ net = <<>>
  /\ batches = <<>>
  /\ results = <<>>
  /\ ret = Pending
  /\ RtIdle
  /\ FnInit
  /\ par = ParIdle

\* the call returns
CallCreateError ==
  /\ fn.pc = "args"
  /\ fn' = [fn EXCEPT !.pc = "done",
              !.result = createErrorFromResponse(fn.errorType, fn.message, fn.code,
                                                 fn.extra)]
  /\ UNCHANGED <<httpVars, rtVars, par>>

ErrNext == CallCreateError

SpecErrors == ErrInit /\ [][ErrNext]_vars

\* the steps of a session that connects and closes repeatedly: at most
\* MaxConnects connect() calls and MaxConnCalls data operations
ConnNext ==
  \/ Len(socks) < MaxConnects /\ RtConnect
  \/ RtClose
  \/ \E s \in 1..Len(socks) : SockOpen(s)
  \/ \E s \in 1..Len(socks) : SockError(s)
  \/ \E s \in 1..Len(socks) : SockClose(s)
  \/ \E s \in 1..Len(socks), f \in InboundFrames : SockMessage(s, f)
  \/ Len(calls) < MaxConnCalls /\ \E kind \in DataOps : RtCall(kind)
  \/ \E t \in timers : RtTimer(t)
  \/ RtTick

SpecConn == RtInit /\ [][ConnNext]_vars

(***************************************************************************)
(* Properties.                                                             *)
(***************************************************************************)
\* attempt outcomes by class
Is5xxResponse(h) == h.kind = "response" /\ h.status >= 500 /\ h.status < 600
Is4xxResponse(h) == h.kind = "response" /\ h.status >= 400 /\ h.status < 500
\* identifiers whose dedicated error kind carries a code in [400,500)
ClientErrorIdentifiers ==
  {"collection_not_found", "collection_already_exists", "invalid_dimension",
   "invalid_payload", "budget_exceeded"}
\* HTTP attempts of the running request() call that were put on the network
AttemptsSent == Cardinality({k \in 1..Len(net) : net[k].call = Len(batches)})
\* the sleeps so far are d, 2d, 4d, ... in that order
SleepsDouble ==
  \A k \in 1..Len(sleeps) :
    sleeps[k] = IF k = 1 THEN cfg.retryDelay ELSE 2 * sleeps[k - 1]
RECURSIVE Concat(_)
Concat(ss) == IF ss = <<>> THEN <<>> ELSE Head(ss) \o Concat(Tail(ss))
RECURSIVE SumUpserted(_)
SumUpserted(rs) == IF rs = <<>> THEN 0 ELSE Head(rs).upserted + SumUpserted(Tail(rs))
RECURSIVE ConcatFailed(_)
ConcatFailed(rs) == IF rs = <<>> THEN <<>> ELSE Head(rs).failed \o ConcatFailed(Tail(rs))
\* ceil(n / MAX_BATCH_SIZE)
CeilChunks(n) == (n + MAX_BATCH_SIZE - 1) \div MAX_BATCH_SIZE

C2_ClientStatusNotRetried ==
  (hist # <<>> /\ Is4xxResponse(hist[1]))
    => /\ req.pc = "done"
       /\ req.out.kind = "error"
       /\ Len(hist) = 1
       /\ AttemptsSent = 1
       /\ sleeps = <<>>

\* C3: an attempt that fails with a typed error whose code is in [400,500)
\* ends request() at once with that same error, at every attempt index: no
\* further attempt and no sleep follow it.
C3_ClientErrorTerminal ==
  (req.caught.typed /\ req.caught.code >= 400 /\ req.caught.code < 500)
    => /\ req.pc = "done"
       /\ req.out = Threw(req.caught)
       /\ req.attempt = Len(hist) - 1
       /\ AttemptsSent = Len(hist)
       /\ Len(sleeps) = Len(hist) - 1

C3_Witness ==
  /\ req.pc = "done"
  /\ req.caught.typed /\ req.caught.code = 400
  /\ Len(hist) = 3
  /\ req.out.error = req.caught

\* C4 as claimed: when all maxRetries+1 attempts failed with 5xx responses or
\* no response, the error raised is a connection error whose message states
\* the attempt count.
C4_AsClaimed ==
  (req.pc = "done" /\ Len(hist) = cfg.maxRetries + 1
     /\ \A k \in 1..Len(hist) : Is5xxResponse(hist[k]) \/ hist[k].kind = "noresponse")
    => /\ req.out.kind = "error"
       /\ req.out.error.name = "ConnectionError"
       /\ req.out.error.message[1] = "Request failed after %d attempts: %s"
       /\ req.out.error.message[3] = cfg.maxRetries + 1

\* C4 (amended): when all maxRetries+1 attempts failed, request() raises the
\* typed error of the last attempt (the error built from the 5xx response, or
\* the "No response received" connection error); only an untyped last failure
\* is replaced by a connection error stating the attempt count.  No value is
\* returned.
C4_ExhaustionRaisesLastError ==
  (req.pc = "done" /\ Len(hist) = cfg.maxRetries + 1
     /\ \A k \in 1..Len(hist) : hist[k].kind # "ok")
    => LET last == hist[Len(hist)] IN
       /\ req.out.kind = "error"
       /\ req.out.value = NoValue
       /\ req.caught.typed => req.out.error = req.caught
       /\ (Is5xxResponse(last) /\ last.ident \notin ClientErrorIdentifiers)
            => req.out.error.name \in {"InternalError", "VectorDBError"}
       /\ last.kind = "noresponse"
            => /\ req.out.error.name = "ConnectionError"
               /\ req.out.error.message[1] = "No response received: %s"
       /\ ~req.caught.typed
            => req.out.error =
                 ConnectionError(<<"Request failed after %d attempts: %s",
                                   req.caught.name, cfg.maxRetries + 1>>)

C4_Witness ==
  /\ req.pc = "done"
  /\ cfg.maxRetries = 2
  /\ Len(hist) = 3
  /\ \A k \in 1..Len(hist) : Is5xxResponse(hist[k])
  /\ req.out.error.name = "InternalError"
  /\ req.out.error.code = 500

\* C5: the upsertBatch calls of upsertPoints carry contiguous slices of the
\* input in original order, each of at most 1000 points; once upsertPoints
\* has returned there were exactly ceil(N/1000) of them (one when N <= 1000)
\* and their concatenation is the input list.
C5_ChunkPlan ==
  call.op = "upsertPoints" =>
    LET N == Len(call.points)
        sent == Concat(batches)
    IN
    /\ \A k \in 1..Len(batches) :
         Len(batches[k]) >= 1 /\ Len(batches[k]) <= MAX_BATCH_SIZE
    /\ Len(sent) <= N
    /\ sent = SubSeq(call.points, 1, Len(sent))
    /\ Len(batches) <= CeilChunks(N)
    /\ (N >= 1 /\ N <= MAX_BATCH_SIZE) => Len(batches) = 1
    /\ \A k \in 1..Len(net) :
         /\ net[k].call \in 1..Len(batches)
         /\ net[k].method = "POST"
         /\ net[k].url = PointsPath(call.collection)
    /\ ret.kind = "value" =>
         /\ Len(batches) = CeilChunks(N)
         /\ sent = call.points
         /\ {net[k].call : k \in 1..Len(net)} = 1..Len(batches)

C5_Witness ==
  /\ call.op = "upsertPoints"
  /\ ret.kind = "value"
  /\ Len(call.points) = 2 * MAX_BATCH_SIZE + 1
  /\ Len(batches) = 3
  /\ Len(batches[3]) = 1

\* C6: the chunk calls of upsertPoints run one after the other: while a
\* request() call is unsettled the operation is suspended on it, every chunk
\* before the latest has returned, and on the network every attempt of chunk
\* K precedes every attempt of chunk K+1.
C6_ChunksSequential ==
  /\ req.pc \in {"try", "inflight", "sleep"} =>
       ret.kind = "pending" /\ up.pc \in {"await", "tail"}
  /\ call.op = "upsertPoints" =>
       /\ Len(batches) <= Len(results) + 1
       /\ Len(batches) = Len(results) + 1 =>
            \/ req.pc \in {"try", "inflight", "sleep"}
            \/ req.pc = "done" /\ up.pc \in {"await", "tail"}
            \/ ret.kind = "error"
       /\ \A j, k \in 1..Len(net) : j < k => net[j].call <= net[k].call
       /\ \A k \in 1..Len(net) : net[k].call <= Len(batches)

C6_Witness ==
  /\ call.op = "upsertPoints"
  /\ Len(batches) = 3
  /\ Len(results) = 2
  /\ req.pc = "inflight"
  /\ req.attempt = 1
  /\ Len(net) >= 4

\* C7: when every chunk call succeeded, the returned upserted is the sum of
\* the chunks' upserted counts and the returned failed list is the
\* concatenation of the chunks' failed lists in chunk order; with a single
\* chunk the result is that chunk's result.
C7_Aggregation ==
  (call.op = "upsertPoints" /\ ret.kind = "value" /\ batches # <<>>)
    => /\ Len(results) = Len(batches)
       /\ ret.value.upserted = SumUpserted(results)
       /\ ret.value.failed = ConcatFailed(results)
       /\ Len(batches) = 1 => ret.value = results[1]

C7_Witness ==
  /\ call.op = "upsertPoints"
  /\ ret.kind = "value"
  /\ Len(results) = 3
  /\ Len(results[1].failed) = 1
  /\ Len(results[2].failed) = 2
  /\ results[3].upserted = MAX_BATCH_SIZE
  /\ Len(ret.value.failed) = 3

\* the running request() call, once settled, made upsertBatch raise
ChunkRaised ==
  /\ req.pc = "done"
  /\ \/ req.out.kind = "error"
     \/ req.out.kind = "value" /\ req.out.value.shape # "UpsertResult"

\* C8: when the write call for chunk K raises, upsertPoints raises that error
\* and returns no aggregate, chunk K is the last call issued, and nothing is
\* sent afterwards (no later chunk, no compensating call).
C8_ChunkErrorAborts ==
  /\ [](( call.op = "upsertPoints" /\ up.pc = "done" /\ ChunkRaised )
         => /\ ret.kind = "error"
            /\ ret.value = NoValue
            /\ ret.error = IF req.out.kind = "error" THEN req.out.error
                           ELSE RawError("ZodError", Text("UpsertResult"))
            /\ Len(batches) = Len(results) + 1
            /\ \A k \in 1..Len(net) :
                 net[k].method = "POST" /\ net[k].url = PointsPath(call.collection))
  /\ [][ (call.op = "upsertPoints" /\ ret.kind = "error")
           => (net' = net /\ batches' = batches /\ ret' = ret) ]_vars

C8_Witness ==
  /\ call.op = "upsertPoints"
  /\ ret.kind = "error"
  /\ Len(call.points) = 2 * MAX_BATCH_SIZE + 1
  /\ Len(batches) = 2
  /\ Len(results) = 1
  /\ ret.error.name = "InternalError"

\* C9: upsertPoints with an empty point list returns {upserted: 0,
\* failed: []} and sends nothing, for every collection name.
C9_EmptyUpsert ==
  (call.op = "upsertPoints" /\ Len(call.points) = 0)
    => /\ ret = Returned(UpsertResult(0, <<>>))
       /\ net = <<>>
       /\ batches = <<>>
       /\ req.pc = "idle"

C9_Witness ==
  /\ call.op = "upsertPoints"
  /\ call.collection = "test-collection"
  /\ Len(call.points) = 0
  /\ ret.kind = "value"

\* C10: deletePoints with an empty id list raises an invalid-payload error
\* and sends nothing, for every collection name.
C10_EmptyDelete ==
  (call.op = "deletePoints" /\ Len(call.ids) = 0)
    => /\ ret.kind = "error"
       /\ ret.error.name = "InvalidPayloadError"
       /\ ret.error.code = 400
       /\ net = <<>>
       /\ req.pc = "idle"

C10_Witness ==
  /\ call.op = "deletePoints"
  /\ call.collection = "docs"
  /\ Len(call.ids) = 0
  /\ ret.kind = "error"

(***************************************************************************)
(* Properties of the streaming session.                                    *)
(***************************************************************************)
\* the step just taken is a data operation / delivered a frame of this type
CallStep == rtLast'.ev \in DataOps /\ Len(calls') = Len(calls) + 1
FrameStep(type) ==
  rtLast'.ev = "message" /\ rtLast'.frame.parses /\ rtLast'.frame.type = type
\* the call made last
LastCall == calls[Len(calls)]

\* C11: a data operation (upsert, subscribe, ping) called while the session
\* is not connected is rejected at the call with the not-connected error: no
\* frame is sent, neither pending slot is written, no timeout is armed and no
\* socket is created or touched (no reconnect).
C11_NotConnectedFailsAtCall ==
  [][ (CallStep /\ (~connected \/ ws = 0))
        => /\ calls'[Len(calls')].status = "rejected"
           /\ calls'[Len(calls')].error = NotConnectedError
           /\ wsSent' = <<>>
           /\ pendingAck' = pendingAck /\ pendingPong' = pendingPong
           /\ timers' = timers
           /\ socks' = socks /\ ws' = ws /\ connected' = connected ]_vars

C11_Witness ==
  /\ rtLast.ev = "upsert"
  /\ socks # <<>>
  /\ ~connected
  /\ LastCall.status = "rejected"
  /\ LastCall.error = NotConnectedError

\* C12: an ack frame that arrives while a write is pending resolves that call
\* with exactly the frame's upserted, failed and took_ms and empties the
\* write slot; a pong frame resolves a pending ping and empties its slot; a
\* call's own timeout firing while the call is pending rejects it and
\* empties its slot.
C12_PendingSettles ==
  [][ /\ (FrameStep("ack") /\ pendingAck # 0)
          => /\ calls'[pendingAck].status = "resolved"
             /\ calls'[pendingAck].value =
                  [upserted |-> rtLast'.frame.upserted, failed |-> rtLast'.frame.failed,
                   took_ms |-> rtLast'.frame.took_ms]
             /\ pendingAck' = 0
      /\ (FrameStep("pong") /\ pendingPong # 0)
          => /\ calls'[pendingPong].status = "resolved"
             /\ pendingPong' = 0
      /\ (rtLast'.ev = "timer" /\ pendingAck # 0 /\ rtLast'.id = pendingAck)
          => /\ calls'[pendingAck].status = "rejected"
             /\ calls'[pendingAck].error = AckTimeoutError
             /\ pendingAck' = 0
      /\ (rtLast'.ev = "timer" /\ pendingPong # 0 /\ rtLast'.id = pendingPong)
          => /\ calls'[pendingPong].status = "rejected"
             /\ calls'[pendingPong].error = PongTimeoutError
             /\ pendingPong' = 0 ]_vars

C12_Witness ==
  /\ Len(calls) = 2
  /\ calls[1].kind = "upsert"
  /\ calls[1].status = "resolved"
  /\ calls[1].value = [upserted |-> 2, failed |-> 0, took_ms |-> 5]
  /\ calls[2].kind = "ping"
  /\ calls[2].status = "rejected"
  /\ calls[2].error = PongTimeoutError
  /\ pendingAck = 0 /\ pendingPong = 0

\* the timeout errors
TimeoutErrors == {AckTimeoutError, PongTimeoutError}

\* C13: a call is rejected with the timeout error only when its own timeout
\* has run out (30 s after a write was sent, 10 s after a ping): a call that
\* carries the timeout error has no time left on the timer it armed.
C13_OwnTimeoutOnly ==
  \A c \in 1..Len(calls) :
    calls[c].error \in TimeoutErrors => \A t \in timers : t.call = c => t.left = 0

\* C14: an error frame received while a write is pending rejects that call
\* with a VectorDBError carrying the frame's message and code and empties
\* the write slot; with no write pending no call changes; either way every
\* error listener gets the frame's {message, code} once, and a pending ping
\* and its slot are left as they were.
C14_ErrorFrame ==
  [][ FrameStep("error")
        => LET f == rtLast'.frame IN
           /\ pendingAck # 0
                => /\ calls'[pendingAck].status = "rejected"
                   /\ calls'[pendingAck].error.typed
                   /\ calls'[pendingAck].error.name = "VectorDBError"
                   /\ calls'[pendingAck].error.message = Text(f.message)
                   /\ calls'[pendingAck].error.code = f.code
                   /\ pendingAck' = 0
                   /\ \A c \in 1..Len(calls) : c # pendingAck => calls'[c] = calls[c]
           /\ pendingAck = 0 => (calls' = calls /\ pendingAck' = 0)
           /\ Len(heard') = listeners
           /\ \A i \in 1..listeners :
                heard'[i] = [event |-> "error", listener |-> i, payload |-> f]
           /\ pendingPong' = pendingPong
           /\ pendingPong # 0 => calls'[pendingPong] = calls[pendingPong] ]_vars

C14_Witness ==
  /\ rtLast.ev = "message" /\ rtLast.frame.type = "error"
  /\ Len(calls) = 2
  /\ calls[1].kind = "ping" /\ calls[1].status = "pending" /\ pendingPong = 1
  /\ calls[2].kind = "subscribe" /\ calls[2].status = "rejected"
  /\ calls[2].error.code = 400
  /\ pendingAck = 0
  /\ Len(heard) = 2

\* C15: a server ping frame received by a connected session (connected, with
\* a socket held) makes it send exactly one frame, a pong, on the socket it
\* holds, and changes neither pending slot, no call and not the connection
\* state.
C15_ServerPing ==
  [][ (FrameStep("ping") /\ connected /\ ws # 0)
        => /\ wsSent' = <<[type |-> "pong", sock |-> ws, call |-> 0]>>
           /\ pendingAck' = pendingAck /\ pendingPong' = pendingPong
           /\ calls' = calls
           /\ connected' = connected /\ ws' = ws /\ socks' = socks ]_vars

C15_Witness ==
  /\ rtLast.ev = "message" /\ rtLast.frame.type = "ping"
  /\ Len(wsSent) = 1 /\ wsSent[1].type = "pong"
  /\ pendingAck # 0 /\ pendingPong # 0
  /\ connected

\* the calls waiting in a slot
Waiting(slot) ==
  {c \in 1..Len(calls) : calls[c].status = "pending" /\ SlotOf(calls[c].kind) = slot}

C17_Lifecycle ==
  /\ ~connected
  /\ [][ /\ (connected' /\ ~connected) => rtLast'.ev = "open"
         /\ rtLast'.ev = "close()" => ~connected'
         /\ rtLast'.ev = "close"
              => /\ ~connected'
                 /\ Len(heard') = listeners
                 /\ \A i \in 1..listeners : heard'[i].event = "close"
         /\ (rtLast'.ev = "message" \/ rtLast'.ev \in DataOps)
              => connected' = connected ]_vars

\* C18: close() drops the socket handle and leaves the session disconnected,
\* and changes neither pending slot and no call; a call still pending after
\* close() is rejected by a timer only when its own timeout has run out.
C18_CloseLeavesPending ==
  [][ /\ rtLast'.ev = "close()"
           => /\ ws' = 0
              /\ ~connected'
              /\ pendingAck' = pendingAck /\ pendingPong' = pendingPong
              /\ calls' = calls
      /\ (rtLast'.ev = "timer" /\ ws = 0)
           => \A c \in 1..Len(calls) :
                (calls[c].status = "pending" /\ calls'[c].status # "pending")
                  => \A t \in timers : t.call = c => t.left = 0 ]_vars

(***************************************************************************)
(* Properties of the error taxonomy.                                       *)
(***************************************************************************)
\* the attempt answered with the budget_exceeded identifier
IsBudgetResponse(h) == h.kind = "response" /\ h.ident = "budget_exceeded"

\* C19: a response carrying the identifier budget_exceeded ends request()
\* at that attempt with a BudgetExceededError of code 422 whose estimate is
\* the response's estimate payload; no sleep and no further attempt follow,
\* and a search call hands exactly that error to its caller (after one
\* attempt when the first response is the refusal).
C19_BudgetExceeded ==
  \A k \in 1..Len(hist) :
    IsBudgetResponse(hist[k])
      => /\ k = Len(hist)
         /\ Len(net) = k
         /\ Len(sleeps) = k - 1
         /\ req.pc = "done"
         /\ req.out.kind = "error"
         /\ req.out.error.typed
         /\ req.out.error.name = "BudgetExceededError"
         /\ req.out.error.code = 422
         /\ hist[k].estimate # "" => req.out.error.estimate = hist[k].estimate
         /\ (call.op = "search" /\ up.pc = "done") => ret = req.out

C19_Witness ==
  /\ call.op = "search"
  /\ call.query.budget_ms = 1
  /\ cfg.maxRetries = 1
  /\ Len(hist) = 1
  /\ hist[1].status = 422
  /\ IsBudgetResponse(hist[1])
  /\ hist[1].estimate = "E2"
  /\ up.pc = "done"
  /\ ret.kind = "error"
  /\ ret.error.name = "BudgetExceededError"
  /\ ret.error.estimate = "E2"
  /\ Len(net) = 1
  /\ sleeps = <<>>

\* the kind the fixed table gives an identifier
DedicatedKind(errorType) ==
  CASE errorType = "collection_not_found" -> "CollectionNotFoundError"
    [] errorType = "collection_already_exists" -> "CollectionAlreadyExistsError"
    [] errorType = "invalid_dimension" -> "InvalidDimensionError"
    [] errorType = "invalid_payload" -> "InvalidPayloadError"
    [] errorType = "internal_error" -> "InternalError"
    [] errorType = "budget_exceeded" -> "BudgetExceededError"
    [] OTHER -> "VectorDBError"

\* C20: createErrorFromResponse returns a typed error for every input: the
\* dedicated kind for an identifier of the table, and for any other
\* identifier the generic VectorDBError with the message and the numeric
\* code it was called with.
C20_TableDriven ==
  fn.pc = "done"
    => /\ fn.result.typed
       /\ fn.result.name = DedicatedKind(fn.errorType)
       /\ DedicatedKind(fn.errorType) = "VectorDBError"
            => /\ fn.result.message = fn.message
               /\ fn.result.code = fn.code

\* C21: for the identifiers collection_not_found and collection_already_exists
\* the error is of the identifier's kind; when the message carries a quoted
\* collection name the error's message is the kind's template with exactly
\* that name, and when no name can be parsed the error's message is the
\* message the function was called with, unchanged.
C21_NameOrMessage ==
  (fn.pc = "done" /\ fn.errorType \in {"collection_not_found", "collection_already_exists"})
    => LET collectionName == MatchCollectionName(fn.message) IN
       /\ fn.result.typed
       /\ fn.result.name = DedicatedKind(fn.errorType)
       /\ collectionName # NoMatch
            => fn.result.message =
                 <<IF fn.errorType = "collection_not_found"
                     THEN "collection '%s' not found"
                     ELSE "collection '%s' already exists", collectionName, 0>>
       /\ collectionName = NoMatch => fn.result.message = fn.message

(***************************************************************************)
(* Properties of the failures the HTTP client raises.                      *)
(***************************************************************************)
\* C22: whatever the attempts of request() throw (a typed error, the error
\* built from a response, no response, a request that could not be set up,
\* or an exception that is no VectorDBError), a request() that fails hands
\* its caller a typed error and no value.
C22_TypedFailures ==
  (req.pc = "done" /\ req.out.kind = "error")
    => /\ req.out.error.typed
       /\ req.out.value = NoValue
       /\ ~req.caught.typed
            => /\ req.out.error.name = "ConnectionError"
               /\ Len(hist) = cfg.maxRetries + 1

C22_Witness ==
  /\ req.pc = "done"
  /\ Len(hist) = 3
  /\ hist[1].kind = "setup"
  /\ hist[2].kind = "noresponse"
  /\ hist[3].kind = "nullbody"
  /\ ~req.caught.typed
  /\ req.caught.name = "TypeError"
  /\ req.out.kind = "error"
  /\ req.out.error.typed

\* the operations that parse the body request() returned
ParsedOps == {"upsertPoints", "deletePoints", "search", "createCollection", "createKey"}
\* the successful attempts of the running request() call
OkAttempts == {k \in 1..Len(hist) : hist[k].kind = "ok"}

RequiredFields == {"name", "dimension", "distance"}
OptionalFields == {"enable_bm25", "bm25_text_field", "quantization", "tiered_storage"}

\* C24: the body createCollection hands to request() has exactly the fields
\* name, dimension and distance plus the optional fields the caller set, each
\* with the caller's value; an optional field that is not set is not in the
\* body (not even as null); every attempt is a POST to /api/v1/collections.
C24_CreateCollectionBody ==
  call.op = "createCollection" =>
    LET config == call.config
        body == req.data
    IN
    /\ DOMAIN body = RequiredFields \cup {k \in OptionalFields : config[k] # None}
    /\ \A k \in RequiredFields : body[k] = config[k]
    /\ \A k \in OptionalFields : config[k] # None => body[k] = config[k][1]
    /\ \A k \in 1..Len(net) :
         net[k].method = "POST" /\ net[k].url = <<"/", "api/v1/collections">>

C24_Witness ==
  /\ call.op = "createCollection"
  /\ call.config.enable_bm25 = Some(TRUE)
  /\ call.config.bm25_text_field = Some("content")
  /\ call.config.quantization = None
  /\ call.config.tiered_storage = None
  /\ Len(net) = 1
  /\ req.data = [name |-> "docs", dimension |-> 384, distance |-> "Cosine",
                 enable_bm25 |-> TRUE, bm25_text_field |-> "content"]

\* C25: every HTTP attempt of a client, first attempts and retries alike,
\* carries the header Authorization: Bearer <apiKey> when an apiKey was
\* configured at construction, and no Authorization header when none was.
C25_AuthorizationHeader ==
  \A k \in 1..Len(net) :
    LET headers == net[k].headers IN
    /\ ("Authorization" \in DOMAIN headers) <=> (cfg.apiKey # "")
    /\ cfg.apiKey # "" => headers.Authorization = <<"Bearer %s", cfg.apiKey>>

C25_Witness ==
  /\ cfg.apiKey = "ferres_sk_abc123"
  /\ Len(net) = 3
  /\ net[3].attempt = 2
  /\ \A k \in 1..3 : net[k].headers.Authorization = <<"Bearer %s", "ferres_sk_abc123">>

\* C26: createKey with a name that is empty or all whitespace raises an
\* invalid-payload error and puts nothing on the network; with any other
\* name the body it sends carries the name without its leading and trailing
\* whitespace, every other character kept in place.
C26_CreateKeyName ==
  call.op = "createKey" =>
    LET name == call.name
        inner == {i \in 1..Len(name) : name[i] \notin Whitespace}
    IN
    IF inner = {} THEN
      /\ ret.kind = "error"
      /\ ret.error.name = "InvalidPayloadError"
      /\ net = <<>>
      /\ req.pc = "idle"
    ELSE
      LET first == CHOOSE i \in inner : \A j \in inner : i <= j
          last == CHOOSE i \in inner : \A j \in inner : j <= i
      IN
      /\ req.pc # "idle"
      /\ req.data = [name |-> SubSeq(name, first, last)]
      /\ \A k \in 1..Len(net) : net[k].method = "POST" /\ net[k].url = <<"/", "api/v1/keys">>

C26_Witness ==
  /\ call.op = "createKey"
  /\ call.name = <<" ", "k", "\t">>
  /\ req.data = [name |-> <<"k">>]
  /\ Len(net) = 1

(***************************************************************************)
(* Properties of the streaming session's inbound frames.                   *)
(***************************************************************************)
\* C27: an event frame is delivered, in the step that receives it and so
\* before any later frame is handled, once to each registered listener in
\* registration order, as an event with the frame's collection, action,
\* point_ids and timestamp; the step changes neither pending slot, no call
\* and no timer, and sends nothing.
C27_EventDelivery ==
  [][ FrameStep("event")
        => LET f == rtLast'.frame IN
           /\ Len(heard') = listeners
           /\ \A i \in 1..listeners :
                heard'[i] = [event |-> "event", listener |-> i,
                             payload |-> [collection |-> f.collection,
                                          action |-> f.action,
                                          point_ids |-> f.point_ids,
                                          timestamp |-> f.timestamp]]
           /\ pendingAck' = pendingAck /\ pendingPong' = pendingPong
           /\ calls' = calls
           /\ timers' = timers
           /\ wsSent' = <<>> ]_vars

C27_Witness ==
  /\ rtLast.ev = "message" /\ rtLast.frame.type = "event"
  /\ rtLast.frame.action = "delete"
  /\ listeners = 2
  /\ Len(heard) = 2
  /\ heard[2].payload.timestamp = 1700000001
  /\ pendingAck # 0 /\ pendingPong # 0

\* the step just taken received a frame whose text is not JSON
GarbageStep == rtLast'.ev = "message" /\ ~rtLast'.frame.parses

\* C28: a frame that cannot be parsed settles no call, reaches no listener,
\* sends nothing, throws nothing and leaves the connection state, the
\* sockets, both pending slots and the timers as they were, so that the
\* next frame is handled as if the unparseable one had not arrived.
C28_UnparseableDropped ==
  [][ GarbageStep
        => /\ calls' = calls
           /\ heard' = <<>>
           /\ wsSent' = <<>>
           /\ ~unhandled'
           /\ connected' = connected /\ ws' = ws /\ socks' = socks
           /\ pendingAck' = pendingAck /\ pendingPong' = pendingPong
           /\ timers' = timers
           /\ listeners' = listeners ]_vars

C28_Witness ==
  /\ rtLast.ev = "message" /\ ~rtLast.frame.parses
  /\ rtLast.frame.type = "error"
  /\ pendingAck # 0 /\ pendingPong # 0
  /\ calls[pendingAck].status = "pending"
  /\ connected

(***************************************************************************)
(* Properties of the streaming session's connections.                      *)
(***************************************************************************)
\* the sockets whose handshake is under way, and those whose handlers can
\* still run (every socket that has not delivered its close event)
InFlight == {s \in 1..Len(socks) : socks[s].state = "connecting"}
Live == {s \in 1..Len(socks) : socks[s].state # "closed"}

\* C29: whatever connect() and close() calls are made, at most one connect
\* attempt is in flight and at most one socket is left whose events can
\* change the session's state.
C29_SingleConnection ==
  /\ Cardinality(InFlight) <= 1
  /\ Cardinality(Live) <= 1

(***************************************************************************)
(* Properties of request() calls running side by side.                     *)
(***************************************************************************)
\* an attempt outcome after which request() tries again when it may
Retryable(h) == h.kind = "noresponse" \/ Is5xxResponse(h)

\* call i runs on its own attempt counter and retry budget: what it has
\* sent, slept and returned follows from its own attempt outcomes alone
OwnBudget(i) ==
  LET r == par[i].req
      h == par[i].hist
      sl == par[i].sleeps
  IN
  /\ Len(h) <= cfg.maxRetries + 1
  /\ r.attempt = Len(sl) - (IF r.pc = "sleep" THEN 1 ELSE 0)
  /\ \A k \in 1..Len(sl) : sl[k] = IF k = 1 THEN cfg.retryDelay ELSE 2 * sl[k - 1]
  /\ par[i].sent = Len(h) + (IF r.pc = "inflight" THEN 1 ELSE 0)
  /\ \A k \in 1..(Len(h) - 1) : Retryable(h[k])
  /\ r.pc \in {"try", "inflight", "sleep"} => Len(sl) = Len(h)
  /\ r.pc = "sleep" => Len(h) <= cfg.maxRetries
  /\ r.pc = "done" =>
       /\ Len(sl) = Len(h) - 1
       /\ r.out.kind = "value" <=> h[Len(h)].kind = "ok"
       /\ (r.out.kind = "error" /\ Retryable(h[Len(h)])) => Len(h) = cfg.maxRetries + 1

\* C30: while a request() call is in its backoff sleep, every other call on
\* the same client can take its next step (be started, send its attempt,
\* have it answered), and every call keeps to its own attempt counter and
\* retry budget whatever the other calls' attempts do.
C30_Concurrent ==
  /\ \A i, j \in 1..MaxPar :
       (i # j /\ par[i].req.pc = "sleep")
         => /\ par[j].req.pc = "idle" => ENABLED ParCall(j)
            /\ par[j].req.pc = "try" => ENABLED ParSend(j)
            /\ par[j].req.pc = "inflight" => (ENABLED ParSucceed(j) /\ ENABLED ParFail(j))
  /\ \A i \in 1..MaxPar : OwnBudget(i)

C30_Witness ==
  /\ cfg.maxRetries = 2
  /\ par[1].req.pc = "sleep" /\ par[1].req.attempt = 0
  /\ par[2].during
  /\ par[2].req.pc = "done"
  /\ Len(par[2].hist) = 3
  /\ par[2].sleeps = <<cfg.retryDelay, 2 * cfg.retryDelay>>
  /\ par[2].req.out.kind = "error"

\* C31: an attempt that ends without a response (connection failure, timeout)
\* is retryable: while the attempt index is below maxRetries, request() does
\* not end on it but sleeps retryDelay * 2^index and then makes the next
\* attempt; it ends the call only as the last attempt of the budget, with the
\* "No response received" connection error.
C31_NoResponseRetried ==
  \A k \in 1..Len(hist) :
    hist[k].kind = "noresponse" =>
      IF k <= cfg.maxRetries THEN
        /\ Len(sleeps) >= k
        /\ sleeps[k] = cfg.retryDelay * Pow2(k - 1)
        /\ Len(hist) = k => req.pc \in {"sleep", "try", "inflight"}
        /\ (Len(hist) = k /\ req.pc = "sleep") => AttemptsSent = k /\ req.attempt = k - 1
        /\ (Len(hist) = k /\ req.pc = "try") => AttemptsSent = k /\ req.attempt = k
        /\ (Len(hist) = k /\ req.pc = "inflight") => AttemptsSent = k + 1
        /\ Len(hist) > k => AttemptsSent >= k + 1
      ELSE
        /\ k = cfg.maxRetries + 1
        /\ Len(hist) = k
        /\ req.pc = "done"
        /\ Len(sleeps) = cfg.maxRetries
        /\ req.out.kind = "error"
        /\ req.out.error.name = "ConnectionError"
        /\ req.out.error.message[1] = "No response received: %s"

C31_Witness ==
  /\ req.pc = "done"
  /\ cfg.maxRetries = 3 /\ cfg.retryDelay = 1000
  /\ Len(hist) = 3
  /\ hist[1].kind = "noresponse" /\ hist[2].kind = "noresponse" /\ hist[3].kind = "ok"
  /\ sleeps = <<1000, 2000>>
  /\ AttemptsSent = 3
  /\ req.out.kind = "value"

\* C32: every call of request() terminates, with a response or an error,
\* after at most maxRetries+1 attempts and at most maxRetries sleeps, whatever
\* the outcomes of its attempts.
C32_Terminates ==
  /\ [](/\ AttemptsSent <= cfg.maxRetries + 1
        /\ Len(hist) <= cfg.maxRetries + 1
        /\ Len(sleeps) <= cfg.maxRetries
        /\ req.attempt <= cfg.maxRetries
        /\ req.pc = "done" <=> req.out.kind \in {"value", "error"})
  /\ (req.pc \in {"try", "inflight", "sleep"}) ~> (req.pc = "done")

C32_Witness ==
  /\ req.pc = "done"
  /\ cfg.maxRetries = 3
  /\ AttemptsSent = 4
  /\ Len(sleeps) = 3
  /\ hist[4].kind = "nullbody"
  /\ req.out.kind = "error"

\* C33: when the attempts before attempt k failed with retryable failures and
\* attempt k succeeds, request() ends with the body of attempt k and no error,
\* k attempts were sent and none follows, and the sleeps were the k-1 delays
\* d*2^0, ..., d*2^(k-2).
C33_SuccessAfterRetries ==
  (hist # <<>> /\ hist[Len(hist)].kind = "ok") =>
    LET k == Len(hist) IN
    /\ k <= cfg.maxRetries + 1
    /\ \A j \in 1..(k - 1) : hist[j].kind # "ok"
    /\ req.pc = "done"
    /\ req.out.kind = "value"
    /\ req.out.value \in SuccessBodies(call, req)
    /\ req.out.error = NoError
    /\ req.attempt = k - 1
    /\ AttemptsSent = k
    /\ ~ENABLED RequestStep
    /\ Len(sleeps) = k - 1
    /\ \A j \in 1..(k - 1) : sleeps[j] = cfg.retryDelay * Pow2(j - 1)
    /\ (call.op = "request" /\ up.pc = "done") => ret = req.out

C33_Witness ==
  /\ call.op = "request" /\ up.pc = "done"
  /\ cfg.maxRetries = 3 /\ cfg.retryDelay = 1000
  /\ Len(hist) = 3
  /\ Is5xxResponse(hist[1]) /\ hist[2].kind = "noresponse" /\ hist[3].kind = "ok"
  /\ req.caught.name = "ConnectionError"
  /\ sleeps = <<1000, 2000>>
  /\ ret.kind = "value"

\* the attempts request() has put on the network for the running call
Attempts == {k \in 1..Len(net) : net[k].call = Len(batches)}

\* C38: every attempt of one request() call sends the same method, the same
\* normalized path (with a leading "/" added when the path given has none)
\* and the same body as the first attempt of that call, which are the ones the
\* call was made with.
C38_SameRequest ==
  /\ \A j, k \in 1..Len(net) :
       net[j].call = net[k].call =>
         /\ net[j].method = net[k].method
         /\ net[j].url = net[k].url
         /\ net[j].data = net[k].data
  /\ \A k \in 1..Len(net) : net[k].url[1] = "/"
  /\ \A k \in Attempts :
       /\ net[k].method = req.method /\ net[k].url = req.url /\ net[k].data = req.data
       /\ call.op = "request" =>
            /\ net[k].method = call.method
            /\ net[k].url = (IF call.path[1] = "/" THEN call.path ELSE <<"/">> \o call.path)
            /\ net[k].data = NoData
       /\ call.op = "deletePoints" =>
            /\ net[k].method = "DELETE"
            /\ net[k].url = PointsPath(call.collection)
            /\ net[k].data = [ids |-> call.ids]
       /\ call.op = "upsertPoints" =>
            /\ net[k].method = "POST"
            /\ net[k].url = PointsPath(call.collection)
            /\ Len(net[k].data.points) = Len(batches[Len(batches)])
       /\ call.op = "createKey" => net[k].data = [name |-> Trim(call.name)]

C38_Witness ==
  /\ call.op = "request"
  /\ call.path = <<"api/v1/collections">>
  /\ call.method = "POST"
  /\ Len(net) = 4
  /\ \A k \in 1..4 : net[k].url = <<"/", "api/v1/collections">> /\ net[k].attempt = k - 1
  /\ Len(sleeps) = 3

\* the optional fields of a search query
QueryOptions == {"filter", "namespace", "vector_field"}

\* C39 as claimed: every optional field the caller sets on the input of
\* search or on a point given to upsertPoints is in the outbound body with
\* the same value, and every optional field left unset is absent from it.
C39_OptionalFieldsSent ==
  \A k \in Attempts :
    LET body == net[k].data IN
    /\ call.op = "search" =>
         /\ \A f \in QueryOptions :
              IF call.query[f] # None
                THEN f \in DOMAIN body /\ body[f] = call.query[f][1]
                ELSE f \notin DOMAIN body
         /\ IF call.query.budget_ms # Undefined
              THEN "budget_ms" \in DOMAIN body /\ body.budget_ms = call.query.budget_ms
              ELSE "budget_ms" \notin DOMAIN body
    /\ call.op = "upsertPoints" =>
         LET given == batches[Len(batches)] IN
         \A i \in 1..Len(given) :
           IF given[i].namespace # ""
             THEN "namespace" \in DOMAIN body.points[i]
                    /\ body.points[i].namespace = given[i].namespace
             ELSE "namespace" \notin DOMAIN body.points[i]

\* C34 as claimed: a correlated call (write or ping) issued on a connected
\* session while a call of the same slot is still pending is rejected at the
\* call and leaves the slot to the pending call.
C34_SecondCallFailsFast ==
  [][ (CallStep /\ ensureConnected /\ ~Awaited(rtLast'.ev))
        => /\ calls'[Len(calls')].status = "rejected"
           /\ pendingAck' = pendingAck
           /\ pendingPong' = pendingPong
           /\ timers' = timers
           /\ wsSent' = <<>> ]_vars

\* a socket close() was called on
ClosedByCaller(s) == socks[s].state \in {"closing", "aborted"}

\* C35 as claimed: while the session is connected over a connection opened
\* after close(), a transport-level close or error event of an earlier
\* connection that close() was called on leaves the session connected and
\* leaves the calls and the current connection as they are.
C35_LateEventsIgnored ==
  [][ (/\ connected /\ ws # 0 /\ socks[ws].state = "open"
       /\ rtLast'.ev \in {"close", "error"}
       /\ rtLast'.id < ws
       /\ ClosedByCaller(rtLast'.id))
        => /\ connected'
           /\ ws' = ws
           /\ socks'[ws] = socks[ws]
           /\ calls' = calls ]_vars

\* the write calls
Writes == {c \in 1..Len(calls) : SlotOf(calls[c].kind) = "ack"}

\* the write timed out: it was rejected with the ack timeout error
TimedOut(c) == calls[c].status = "rejected" /\ calls[c].error = AckTimeoutError

\* C36 as claimed: with each write awaited before the next is issued, the
\* server's ack for a write that has already timed out, arriving late,
\* resolves no write: a write that resolves does so on the ack sent for its
\* own frame.
C36_OwnAck ==
  [][ (FrameStep("ack") /\ rtLast'.frame.re \in Writes /\ TimedOut(rtLast'.frame.re))
        => \A c \in Writes :
             (calls[c].status = "pending" /\ calls'[c].status = "resolved")
               => c = rtLast'.frame.re ]_vars

\* C37: with each correlated call awaited before the next is issued, every
\* upsert, subscribe and ping call that passed the connected check and waits
\* in its slot eventually settles, whatever frames arrive and whether or not
\* close() or a transport close happens meanwhile.
C37_CallsSettle ==
  \A c \in 1..MaxCalls :
    (Len(calls) >= c /\ calls[c].status = "pending")
      ~> (Len(calls) >= c /\ calls[c].status \in {"resolved", "rejected"})

C37_Witness ==
  /\ Len(calls) = 2
  /\ calls[1].kind = "upsert" /\ calls[1].status = "resolved"
  /\ calls[2].kind = "ping" /\ calls[2].status = "rejected"
  /\ calls[2].error = PongTimeoutError
  /\ ws = 0 /\ ~connected
  /\ socks[1].state = "closed"

\* the step just taken is the error event of a socket that has not opened,
\* on a session that is not connected
ErrorBeforeOpen ==
  /\ ~connected
  /\ rtLast'.ev = "error"
  /\ socks[rtLast'.id].state \in {"connecting", "aborted"}
  /\ socks[rtLast'.id].promise = "pending"

\* C40 as claimed: when a socket reports an error before it has opened, its
\* connect() rejects and the session is disconnected; while the session's
\* socket is one whose connect() was rejected (no later connect() has been
\* made and opened), the session stays disconnected, so that every data
\* operation is rejected as not connected.
C40_ConnectErrorRejects ==
  /\ [][ ErrorBeforeOpen => (socks'[rtLast'.id].promise = "rejected" /\ ~connected') ]_vars
  /\ []((ws # 0 /\ socks[ws].promise = "rejected") => ~ensureConnected)
  /\ [][ (CallStep /\ ws # 0 /\ socks[ws].promise = "rejected")
           => (calls'[Len(calls')].status = "rejected"
                 /\ calls'[Len(calls')].error = NotConnectedError) ]_vars
====
